---- MODULE Spec2Model ----
(***************************************************************************)
(* A model of createSafeFetch (re-fetch): one engine instance, its shared  *)
(* refreshPromise slot and cache, and the logical calls made on it.  Every *)
(* action is the code of core/attemptFetch between two suspension points   *)
(* (await) of one call, or one event of the environment (a transport       *)
(* outcome, a timer, the external AbortSignal, the refreshToken promise).  *)
(***************************************************************************)
EXTENDS Integers, Sequences, FiniteSets, TLC

\* ---------------------------------------------------------------- bounds
\* number of concurrent logical calls on the engine instance
NCalls == 2
\* largest retries.times a call is configured with
MaxTimes == 3
\* last instant of the clock read by Date.now()
MaxTime == 3
\* number of requests the caller of the cache issues after its first
MaxRounds == 3
\* number of background re-invocations the pollers make
MaxPolls == 3
\* largest attempt number a backoff delay is computed for
MaxBackoffAttempt == 5
\* Math.random() returns one of 0/RandomSteps .. (RandomSteps-1)/RandomSteps
RandomSteps == 4

Calls == 1..NCalls

VARIABLES
    base,            \* SafeFetchBaseConfig of the instance (never changes)
    init,            \* init[c]: SafeFetchRequest of logical call c (never changes)
    calls,           \* calls[c]: the running state of logical call c
    refreshPromise,  \* the pending-refresh slot of the instance
    cache,           \* cache[key]: CacheEntry or NoEntry
    now,             \* Date.now()
    ghost            \* history: counters of collaborator invocations

vars == <<base, init, calls, refreshPromise, cache, now, ghost>>

\* ------------------------------------------------------------ constants
\* cached.cacheTime left undefined
Undefined == -1
\* cacheTime ?? Infinity: larger than every age the clock can produce
Infinity == MaxTime + 1
\* the cache keys `${method}:${targetUrl}` in use
Keys == {"GET:/a"}

\* what parseBody returns for a response without a body
Null == -2

NoErr == [name |-> "none", status |-> 0, timeoutMs |-> 0]
NoEntry == [data |-> 0, timestamp |-> -1]
NoResult == [kind |-> "none", data |-> 0, error |-> NoErr, response |-> 0]
\* a background poller that was not started; st is its position in the loop
NoPoller == [st |-> "off", slot |-> 0, delivered |-> <<>>, afterAbort |-> 0,
             failed |-> 0, returned |-> 0]

\* Number.NaN, as a value of the shape parseInt and getTime results have
NaN == [nan |-> TRUE, val |-> 0]
\* a response without Retry-After header: headers.get returns null; a
\* header is its text, character by character, and the instant
\* `new Date(text).getTime()` gives for that text
NoHeader == [text |-> <<>>, date |-> NaN]

\* -------------------------------------------------------------- errors
networkError == [name |-> "NetworkError", status |-> 0, timeoutMs |-> 0]

timeoutError(timeoutMs) == [name |-> "TimeoutError", status |-> 0, timeoutMs |-> timeoutMs]

httpError(status) == [name |-> "HttpError", status |-> status, timeoutMs |-> 0]

validationError(cause) ==
    [name |-> "ValidationError", status |-> 0, timeoutMs |-> 0, cause |-> cause]

\* what base.errorMap returns for e: a normalized error, or a value without
\* name/message ("invalid"), or an exception
errorMapOut(mode, e) ==
    IF mode = "rename" THEN [e EXCEPT !.name = "ValidationError"]
    ELSE IF mode = "custom" THEN [e EXCEPT !.name = "CustomError"]
    ELSE IF mode = "invalid" THEN [name |-> "none", status |-> -1, timeoutMs |-> 0]
    ELSE e

isNormalizedError(e) == e.name # "none"

\* mutant: what base.errorMap returns is not inspected
mapErrorUnchecked(e) ==
    IF base.errorMap # "none"
    THEN IF base.errorMap = "throws" THEN e
         ELSE errorMapOut(base.errorMap, e)
    ELSE e

mapError(e) ==
    IF base.errorMap # "none"
    THEN IF base.errorMap = "throws" THEN e
         ELSE IF isNormalizedError(errorMapOut(base.errorMap, e))
              THEN errorMapOut(base.errorMap, e) ELSE e
    ELSE e

\* ------------------------------------------------------- call records
IdleCall ==
    [ pc |-> "idle", attempt |-> 0, isRefreshRetry |-> FALSE, role |-> "none",
      startedAt |-> 0, totalTimer |-> FALSE, totalTimedOut |-> FALSE,
      overallAborted |-> FALSE, outerTimer |-> FALSE,
      attemptTimer |-> FALSE, attemptArmedAt |-> 0, attemptTimedOut |-> FALSE,
      attemptAborted |-> FALSE, extAborted |-> FALSE,
      res |-> 0, parsed |-> 0, err |-> NoErr, site |-> "none",
      result |-> NoResult,
      \* history of the call
      transports |-> 0, firstStatus |-> 0, discoveredAt |-> -1,
      firstRole |-> "none", trigger |-> 0, transportsAtRefresh |-> 0,
      awaitedRejected |-> FALSE, refreshDepth |-> 0,
      allRetryable |-> TRUE, lastRetryAt |-> 0, retryAfterAbort |-> FALSE,
      startAfterAbort |-> FALSE, abortedInCall |-> FALSE,
      fetchAfterAbort |-> FALSE, shortCircuit |-> "none",
      transportsAtTop |-> 0, startAfterDeadline |-> FALSE,
      caught |-> [seen |-> FALSE, isAbort |-> FALSE, total |-> FALSE, attempt |-> FALSE],
      caughtErr |-> NoErr,
      \* the error handed to mapError
      unmapped |-> NoErr,
      \* the last retry decision, and the attempt numbers retries.retryOn
      \* was invoked with
      decision |-> [seen |-> FALSE, kind |-> "none", attempt |-> 0, p |-> FALSE,
                    aborted |-> FALSE, retried |-> FALSE, status |-> 0,
                    error |-> "none"],
      predAttempts |-> <<>>, predBefore |-> 0,
      \* the credential in the headers of the attempt, the invocations of
      \* base.authentication, the credential the last transport invocation
      \* carried and the one carried by the attempt that triggered a refresh
      authToken |-> 0, authCalls |-> 0, sentToken |-> 0, triggerToken |-> 0,
      \* the invocations of base.checkNetworkAvailable, its last answer and
      \* the transport invocations made before it; the invocations of
      \* interceptors.onError and the error it was last handed
      netChecks |-> 0, netAvailable |-> FALSE, transportsAtCheck |-> 0,
      onErrorCalls |-> 0, observedErr |-> NoErr,
      \* the invocations of base.errorMap
      mapCalls |-> 0,
      \* when the caller invoked the engine, and whether an attempt started
      \* totalTimeoutMs or more after that
      calledAt |-> 0, startAfterT |-> FALSE,
      \* the transport outcomes (response or exception) classified so far
      outcomes |-> 0,
      \* the last classification of a 2xx response
      okClass |-> [seen |-> FALSE, attempt |-> 0, p |-> FALSE, aborted |-> FALSE,
                   retried |-> FALSE],
      \* long polling: the pollers this call started (by the isRefreshRetry
      \* of the core invocation that started them), its polling.abort signal,
      \* and for a background re-invocation the call and poller it belongs to
      poller |-> [f \in BOOLEAN |-> NoPoller], pollAbort |-> FALSE,
      pollOf |-> 0, pollFlag |-> FALSE,
      pollStartAfterAbort |-> FALSE, pollFetchAfterAbort |-> FALSE,
      onValueCalls |-> 0,
      lookup |-> "none", surfaced |-> 0, surfacedAtTransports |-> 0,
      lookupExpect |-> 0, lookupWithin |-> FALSE, lookupDeletedSince |-> FALSE,
      lookupAfterHit |-> FALSE, entryAfterLookup |-> NoEntry,
      \* what init.validate last returned, and the transport invocations
      \* made until then
      validated |-> [seen |-> FALSE, success |-> FALSE, data |-> 0, error |-> "none",
                     transports |-> 0],
      \* the Retry-After header of the response, the delay last handed to
      \* sleep, the Math.random() step and the time it was computed with
      retryAfter |-> NoHeader, delay |-> 0, delayRnd |-> 0, delayAt |-> 0 ]

ResOk(status) == status >= 200 /\ status <= 299

\* parseBody(res, 'json'): null for 204 and 205, else the body (the bodies
\* are numbered by the transport invocations made so far)
parseBody(status, body) == IF status = 204 \/ status = 205 THEN Null ELSE body

\* mutant: the external signal is never consulted
isAbortedNever(k, i) == FALSE

\* externalSignal?.aborted ?? false
isAborted(k, i) == i.signal /\ k.extAborted

exceededTotalTimeout(k, i, t) ==
    i.totalTimeoutMs # 0 /\ t - k.startedAt >= i.totalTimeoutMs

\* reqInit.signal: the cancellation scope handed to fetch
reqInitSignal(i) ==
    IF i.timeoutMs # 0 THEN "attempt"
    ELSE IF i.totalTimeoutMs # 0 THEN "overall"
    ELSE IF i.signal THEN "external"
    ELSE "none"

\* the listener attemptFetch registers to abort attemptController
attemptListensTo(i) ==
    IF i.timeoutMs = 0 THEN "none"
    ELSE IF i.totalTimeoutMs # 0 THEN "overall"
    ELSE IF i.signal THEN "external"
    ELSE "none"

\* reqInit.signal.aborted
HandedAborted(k, i) ==
    IF reqInitSignal(i) = "attempt" THEN k.attemptAborted
    ELSE IF reqInitSignal(i) = "overall" THEN k.overallAborted
    ELSE IF reqInitSignal(i) = "external" THEN k.extAborted
    ELSE FALSE

\* the pcs at which the listeners of the current attempt are registered
Wired == {"onRequest", "inflight", "response", "awaitRefresh"}

\* --------------------------------------------------------- retry policy
\* mutant: the default predicate retries every failure
retryOnOrDefaultAll(cfg, ctx, p) ==
    IF cfg.retryOn # "none" THEN p ELSE TRUE

\* mutant: retries.retryOn is ignored
retryOnOrDefaultOnly(cfg, ctx, p) ==
    IF ctx.error # NoErr
    THEN ctx.error.name = "NetworkError" \/ ctx.error.name = "TimeoutError"
    ELSE IF ctx.response # 0
         THEN ctx.response >= 500 \/ ctx.response = 429
    ELSE FALSE

\* shouldRetry below its budget check: retries.retryOn when supplied (p is
\* what it returns for this outcome), else the default predicate
retryOnOrDefault(cfg, ctx, p) ==
    IF cfg.retryOn # "none" THEN p
    ELSE IF ctx.error # NoErr
         THEN ctx.error.name = "NetworkError" \/ ctx.error.name = "TimeoutError"
    ELSE IF ctx.response # 0
         THEN ctx.response >= 500 \/ ctx.response = 429
    ELSE FALSE

\* mutant: the budget check is off by one
shouldRetryOffByOne(cfg, attempt, ctx, p) ==
    IF attempt > cfg.times THEN FALSE
    ELSE retryOnOrDefault(cfg, ctx, p)

shouldRetry(cfg, attempt, ctx, p) ==
    IF attempt >= cfg.times THEN FALSE
    ELSE retryOnOrDefault(cfg, ctx, p)

\* whether a retry guard evaluated with a closing shouldRetry call invokes
\* retries.retryOn: the guard is `retries && !isAborted() && shouldRetry(..)`
\* and shouldRetry returns before the predicate when attempt >= times
retryOnInvoked(k, i) ==
    /\ i.retries /\ ~isAborted(k, i)
    /\ k.attempt < i.times
    /\ i.retryOn # "none"

\* mutant: the predicate is handed the number of the next attempt
decidedNextAttempt(k, i, kind, ctx, p, retried) ==
    [k EXCEPT !.decision = [seen |-> TRUE, kind |-> kind, attempt |-> k.attempt,
                            p |-> p, aborted |-> isAborted(k, i),
                            retried |-> retried, status |-> ctx.response,
                            error |-> ctx.error.name],
              !.predAttempts = IF retryOnInvoked(k, i) THEN Append(@, k.attempt + 1)
                               ELSE @]

\* the call record after a retry guard was evaluated on an outcome
decided(k, i, kind, ctx, p, retried) ==
    [k EXCEPT !.decision = [seen |-> TRUE, kind |-> kind, attempt |-> k.attempt,
                            p |-> p, aborted |-> isAborted(k, i),
                            retried |-> retried, status |-> ctx.response,
                            error |-> ctx.error.name],
              !.predAttempts = IF retryOnInvoked(k, i) THEN Append(@, k.attempt)
                               ELSE @]

\* the values retries.retryOn may return
RetryOnReturns(i) ==
    IF i.retryOn = "always" THEN {TRUE}
    ELSE IF i.retryOn = "custom" THEN BOOLEAN
    ELSE {FALSE}

\* ----------------------------------------------------- steps of a call
\* mapError(err), then `await base.interceptors?.onError?.(mapped)`
fail(k, e, site) ==
    [k EXCEPT !.pc = "onError", !.err = mapError(e), !.unmapped = e, !.site = site,
              !.mapCalls = IF base.errorMap # "none" THEN @ + 1 ELSE @]

\* mutant: the failure that is retried is mapped and reported first
sleepThenRetryReported(k) ==
    [k EXCEPT !.pc = "sleep", !.lastRetryAt = k.attempt,
              !.retryAfterAbort = @ \/ k.extAborted,
              !.mapCalls = IF base.errorMap # "none" THEN @ + 1 ELSE @,
              !.onErrorCalls = IF base.onError THEN @ + 1 ELSE @]

\* `await sleep(delay); return attemptFetch(attempt + 1)`
sleepThenRetry(k) ==
    [k EXCEPT !.pc = "sleep", !.lastRetryAt = k.attempt,
              !.retryAfterAbort = @ \/ k.extAborted]

\* mutant: the total deadline is not consulted at the top of an attempt
attemptFetchNoDeadline(k, i, n, t) ==
    IF isAborted(k, i)
    THEN fail([k EXCEPT !.attempt = n, !.allRetryable = FALSE,
                        !.transportsAtTop = k.transports,
                        !.shortCircuit = "aborted"], networkError, "top")
    ELSE [k EXCEPT !.attempt = n,
                   !.transportsAtTop = k.transports,
                   !.startAfterDeadline = @ \/ exceededTotalTimeout(k, i, t),
                   !.startAfterT = @ \/ (/\ i.totalTimeoutMs # 0
                                          /\ t - k.calledAt >= i.totalTimeoutMs),
                   !.attemptTimer = (i.timeoutMs # 0),
                   !.attemptArmedAt = t,
                   !.attemptTimedOut = FALSE,
                   !.attemptAborted = FALSE,
                   !.res = 0, !.parsed = 0,
                   !.startAfterAbort = @ \/ k.extAborted,
                   !.pc = IF base.authentication THEN "auth" ELSE "onRequest"]

\* top of attemptFetch(n), up to its first await
attemptFetch(k, i, n, t) ==
    IF isAborted(k, i)
    THEN fail([k EXCEPT !.attempt = n, !.allRetryable = FALSE,
                        !.transportsAtTop = k.transports,
                        !.shortCircuit = "aborted"], networkError, "top")
    ELSE IF exceededTotalTimeout(k, i, t)
    THEN fail([k EXCEPT !.attempt = n, !.allRetryable = FALSE,
                        !.transportsAtTop = k.transports,
                        !.shortCircuit = "deadline"],
              timeoutError(i.totalTimeoutMs), "top")
    ELSE [k EXCEPT !.attempt = n,
                   !.transportsAtTop = k.transports,
                   !.startAfterDeadline = @ \/ exceededTotalTimeout(k, i, t),
                   !.startAfterT = @ \/ (/\ i.totalTimeoutMs # 0
                                          /\ t - k.calledAt >= i.totalTimeoutMs),
                   !.attemptTimer = (i.timeoutMs # 0),
                   !.attemptArmedAt = t,
                   !.attemptTimedOut = FALSE,
                   !.attemptAborted = FALSE,
                   !.res = 0, !.parsed = 0,
                   !.startAfterAbort = @ \/ k.extAborted,
                   !.pc = IF base.authentication THEN "auth" ELSE "onRequest"]

\* --------------------------------------------------------------- cache
cacheTimeOf(i) == IF i.cacheTime = Undefined THEN Infinity ELSE i.cacheTime

\* mutant: an entry is still valid at now - timestamp = cacheTime
lookupKindInclusive(i, retry, ch, t) ==
    IF ~(i.cached /\ ~retry) THEN "none"
    ELSE IF ch[i.key] = NoEntry THEN "miss"
    ELSE IF t - ch[i.key].timestamp <= cacheTimeOf(i) THEN "hit"
    ELSE "expired"

\* the cache lookup of core: what it finds for this call
lookupKind(i, retry, ch, t) ==
    IF ~(i.cached /\ ~retry) THEN "none"
    ELSE IF ch[i.key] = NoEntry THEN "miss"
    ELSE IF t - ch[i.key].timestamp < cacheTimeOf(i) THEN "hit"
    ELSE "expired"

\* the cache after the lookup: cache.delete(cacheKey) of an expired entry
cacheAfterLookup(i, retry, ch, t) ==
    IF lookupKind(i, retry, ch, t) = "expired"
    THEN [ch EXCEPT ![i.key] = NoEntry]
    ELSE ch

\* the value init.cached.onValue is called with (0: it is not called)
onValue(i, retry, ch, t) ==
    IF lookupKind(i, retry, ch, t) = "hit" THEN ch[i.key].data ELSE 0

\* core(url, init, isRefreshRetry) from its entry to its first await
core(k, i, retry, t, ch) ==
    LET looked == lookupKind(i, retry, ch, t) # "none"
        k1 == [k EXCEPT !.isRefreshRetry = retry,
                        !.totalTimedOut = FALSE,
                        !.overallAborted = FALSE,
                        !.startedAt = IF i.totalTimeoutMs # 0 THEN t ELSE 0,
                        !.calledAt = IF k.refreshDepth > 0 THEN @ ELSE t,
                        !.totalTimer = (i.totalTimeoutMs # 0),
                        !.outerTimer = IF retry THEN k.totalTimer ELSE FALSE,
                        !.lookup = IF looked THEN lookupKind(i, retry, ch, t) ELSE @,
                        !.surfaced = IF looked THEN onValue(i, retry, ch, t) ELSE @,
                        !.onValueCalls =
                            IF onValue(i, retry, ch, t) # 0 THEN @ + 1 ELSE @,
                        !.surfacedAtTransports = IF looked THEN k.transports ELSE @,
                        !.entryAfterLookup =
                            IF looked THEN cacheAfterLookup(i, retry, ch, t)[i.key] ELSE @,
                        !.lookupExpect = IF looked THEN ghost.lastStore[i.key].data ELSE @,
                        !.lookupWithin =
                            IF looked
                            THEN /\ ghost.lastStore[i.key] # NoEntry
                                 /\ t - ghost.lastStore[i.key].timestamp < cacheTimeOf(i)
                            ELSE @,
                        !.lookupDeletedSince =
                            IF looked THEN ghost.deletedSince[i.key] ELSE @,
                        !.lookupAfterHit =
                            IF looked THEN ghost.hitsSince[i.key] > 0 ELSE @]
    IN  IF base.checkNetworkAvailable
        THEN [k1 EXCEPT !.pc = "netcheck"]
        ELSE attemptFetch(k1, i, 1, t)

\* mutant: the attempt's own timer flag is consulted before the total one
catchAttemptFirst(k, i, isAbort, p) ==
    LET baseErr ==
            IF isAbort
            THEN IF i.timeoutMs # 0 /\ k.attemptTimedOut
                 THEN timeoutError(i.timeoutMs)
                 ELSE IF k.totalTimedOut THEN timeoutError(i.totalTimeoutMs)
                      ELSE networkError
            ELSE networkError
        ctx == [response |-> 0, error |-> baseErr]
        k1 == [k EXCEPT !.allRetryable =
                   @ /\ i.retries /\ ~isAborted(k, i) /\ retryOnOrDefault(i, ctx, p),
                        !.caught = [seen |-> TRUE, isAbort |-> isAbort,
                                    total |-> k.totalTimedOut,
                                    attempt |-> k.attemptTimedOut],
                        !.caughtErr = baseErr]
        r == i.retries /\ ~isAborted(k, i) /\ shouldRetry(i, k.attempt, ctx, p)
    IN  IF r
        THEN sleepThenRetry(decided(k1, i, "error", ctx, p, r))
        ELSE fail(decided(k1, i, "error", ctx, p, r), baseErr, "catch")

\* the catch block of attemptFetch
catch(k, i, isAbort, p) ==
    LET baseErr ==
            IF isAbort
            THEN IF k.totalTimedOut THEN timeoutError(i.totalTimeoutMs)
                 ELSE IF i.timeoutMs # 0 /\ k.attemptTimedOut
                      THEN timeoutError(i.timeoutMs)
                      ELSE networkError
            ELSE networkError
        ctx == [response |-> 0, error |-> baseErr]
        k1 == [k EXCEPT !.allRetryable =
                   @ /\ i.retries /\ ~isAborted(k, i) /\ retryOnOrDefault(i, ctx, p),
                        !.caught = [seen |-> TRUE, isAbort |-> isAbort,
                                    total |-> k.totalTimedOut,
                                    attempt |-> k.attemptTimedOut],
                        !.caughtErr = baseErr]
        r == i.retries /\ ~isAborted(k, i) /\ shouldRetry(i, k.attempt, ctx, p)
    IN  IF r
        THEN sleepThenRetry(decided(k1, i, "error", ctx, p, r))
        ELSE fail(decided(k1, i, "error", ctx, p, r), baseErr, "catch")

\* mutant: a refresh retry may refresh again
shouldRefreshAgain(k) ==
    /\ base.refreshToken
    /\ IF base.shouldRefreshToken = "is403" THEN k.res = 403 ELSE k.res = 401

\* base.refreshToken && !isRefreshRetry && (shouldRefreshToken?.(res) ?? 401)
shouldRefresh(k) ==
    /\ base.refreshToken
    /\ ~k.isRefreshRetry
    /\ IF base.shouldRefreshToken = "is403" THEN k.res = 403 ELSE k.res = 401

\* mutant: the slot is not consulted, every caller starts a refresh
RefreshBranchNoCheck(k, rp, settled) ==
    [k EXCEPT !.pc = "awaitRefresh",
              !.role = "starter",
              !.allRetryable = FALSE,
              !.trigger = k.res,
              !.triggerToken = k.sentToken,
              !.transportsAtRefresh = k.transports,
              !.discoveredAt = IF k.discoveredAt < 0 THEN settled ELSE k.discoveredAt,
              !.firstRole = IF k.firstRole = "none" /\ k.attempt = 1
                            THEN "starter" ELSE k.firstRole]

\* the refresh branch: `if (refreshPromise) await it; else create and await`
RefreshBranch(k, rp, settled) ==
    [k EXCEPT !.pc = "awaitRefresh",
              !.role = IF rp # "null" THEN "joiner" ELSE "starter",
              !.allRetryable = FALSE,
              !.trigger = k.res,
              !.triggerToken = k.sentToken,
              !.transportsAtRefresh = k.transports,
              !.discoveredAt = IF k.discoveredAt < 0 THEN settled ELSE k.discoveredAt,
              !.firstRole = IF k.firstRole = "none" /\ k.attempt = 1
                            THEN (IF rp # "null" THEN "joiner" ELSE "starter")
                            ELSE k.firstRole]

\* the slot after the refresh branch
SlotAfterBranch(rp) == "pending"

\* mutant: the slot is cleared only when the refresh fulfils
SlotAfterSettleThen(fulfilled) == IF fulfilled THEN "null" ELSE "settled"

\* mutant: the slot keeps the settled promise
SlotAfterSettleKept(fulfilled) == "settled"

\* the slot after `.finally(() => { refreshPromise = null })`
SlotAfterSettle(fulfilled) == "null"

\* mutant: the Success is returned without its data
succeedNoData(k) ==
    [k EXCEPT !.pc = "done",
              !.result = [kind |-> "ok", data |-> 0, error |-> NoErr,
                          response |-> k.res],
              !.attemptTimer = FALSE, !.totalTimer = FALSE, !.outerTimer = FALSE]

\* mutant: a call that surfaced a cached value returns it
succeedStale(k) ==
    [k EXCEPT !.pc = "done",
              !.result = [kind |-> "ok",
                          data |-> IF k.surfaced # 0 THEN k.surfaced ELSE k.parsed,
                          error |-> NoErr, response |-> k.res],
              !.attemptTimer = FALSE, !.totalTimer = FALSE, !.outerTimer = FALSE]

\* return { ok: true, data: parsed, response: res }, then core's finally
succeed(k) ==
    [k EXCEPT !.pc = "done",
              !.result = [kind |-> "ok", data |-> k.parsed, error |-> NoErr,
                          response |-> k.res],
              !.attemptTimer = FALSE, !.totalTimer = FALSE, !.outerTimer = FALSE]

\* ------------------------------------------------------- long polling
\* mutant: the re-invocations keep the cache configuration of the call
pollingInitCached(i) == [i EXCEPT !.longPooling = FALSE]

\* pollingInit = {...init, cached: undefined, longPooling: undefined}
pollingInit(i) == [i EXCEPT !.cached = FALSE, !.longPooling = FALSE]

\* `while (!polling.abort.aborted)`: the loop sleeps or ends
whileTest(aborted) == IF aborted THEN "stopped" ELSE "sleep"

\* `if (init.longPooling && result.ok)` of every core invocation that gets
\* the Success: the one that ran the attempt, and around a refresh retry the
\* outer one as well; each starts its own loop
startPolling(k, i) ==
    IF i.longPooling
    THEN [k EXCEPT !.poller =
             [f \in BOOLEAN |->
                 IF f = k.isRefreshRetry \/ ~f
                 THEN [NoPoller EXCEPT !.st = whileTest(k.pollAbort),
                                       !.returned = k.result.data]
                 ELSE NoPoller]]
    ELSE k

\* mutant: a failed re-invocation ends the loop
afterPollStopOnFail(q, r, aborted) ==
    IF r.kind = "ok"
    THEN [q EXCEPT !.delivered = Append(@, r.data),
                   !.afterAbort = IF aborted THEN @ + 1 ELSE @,
                   !.slot = 0, !.st = whileTest(aborted)]
    ELSE [q EXCEPT !.slot = 0, !.failed = @ + 1, !.st = "stopped"]

\* the loop after `pollResult = await core(...)`: onUpdated when ok, then
\* the loop test
afterPoll(q, r, aborted) ==
    IF r.kind = "ok"
    THEN [q EXCEPT !.delivered = Append(@, r.data),
                   !.afterAbort = IF aborted THEN @ + 1 ELSE @,
                   !.slot = 0, !.st = whileTest(aborted)]
    ELSE [q EXCEPT !.slot = 0, !.failed = @ + 1, !.st = whileTest(aborted)]

\* mutant: the signal is not tested after the sleep
afterSleepNoTest(aborted) == "poll"

\* `await sleep(polling.interval); if (polling.abort.aborted) break`
afterSleep(aborted) == IF aborted THEN "stopped" ELSE "poll"

\* mutant: a successful response is never retried
retryOnSuccessNever(k, i, p) == FALSE

\* the guard of the retry on a successful response
retryOnSuccess(k, i, p) ==
    /\ i.retries
    /\ ~isAborted(k, i)
    /\ i.retryOn # "none"
    /\ shouldRetry(i, k.attempt, [response |-> k.res, error |-> NoErr], p)

\* mutant: the retry policy is consulted before the refresh branch
classifyRetryFirst(k, i, rp, settled, p) ==
    LET ctx == [response |-> k.res, error |-> NoErr]
        r == i.retries /\ ~isAborted(k, i) /\ shouldRetry(i, k.attempt, ctx, p)
    IN  IF ResOk(k.res) THEN startPolling(succeed(decided(k, i, "ok", ctx, p, FALSE)), i)
        ELSE IF r THEN sleepThenRetry(decided(k, i, "http", ctx, p, r))
        ELSE IF shouldRefresh(k) THEN RefreshBranch(k, rp, settled)
        ELSE fail(decided(k, i, "http", ctx, p, r), httpError(k.res), "try")

\* attemptFetch after `await parseBody`: the response is classified
classify(k, i, rp, settled, p) ==
    LET ctx == [response |-> k.res, error |-> NoErr]
    IN  IF ~ResOk(k.res)
        THEN IF shouldRefresh(k)
             THEN RefreshBranch(k, rp, settled)
             ELSE LET k1 == [k EXCEPT !.allRetryable =
                                @ /\ i.retries /\ ~isAborted(k, i)
                                  /\ retryOnOrDefault(i, ctx, p)]
                      r == i.retries /\ ~isAborted(k, i)
                             /\ shouldRetry(i, k.attempt, ctx, p)
                  IN  IF r
                      THEN sleepThenRetry(decided(k1, i, "http", ctx, p, r))
                      ELSE fail(decided(k1, i, "http", ctx, p, r), httpError(k.res), "try")
        ELSE LET k1 == [k EXCEPT !.allRetryable =
                           @ /\ i.retries /\ ~isAborted(k, i)
                             /\ i.retryOn # "none" /\ p,
                                 !.okClass = [seen |-> TRUE, attempt |-> k.attempt,
                                              p |-> p, aborted |-> isAborted(k, i),
                                              retried |-> retryOnSuccess(k, i, p)]]
                 k2 == decided(k1, i, "ok", ctx, p, retryOnSuccess(k, i, p))
             IN  IF retryOnSuccess(k, i, p) THEN sleepThenRetry(k2)
                 ELSE startPolling(succeed(k2), i)

\* mutant: the store is reached by every 2xx response
storeReachedAny2xx(k, i, p) == ResOk(k.res)

\* whether classify reaches `if (init.cached) cache.set(...)`
storeReached(k, i, p) ==
    ResOk(k.res) /\ ~retryOnSuccess(k, i, p)

\* mutant: an entry that exists is not overwritten
cacheAfterClassifyFirst(k, i, p, ch, t) ==
    IF storeReached(k, i, p) /\ i.cached /\ ch[i.key] = NoEntry
    THEN [ch EXCEPT ![i.key] = [data |-> k.parsed, timestamp |-> t]]
    ELSE ch

\* the cache after classify
cacheAfterClassify(k, i, p, ch, t) ==
    IF storeReached(k, i, p) /\ i.cached
    THEN [ch EXCEPT ![i.key] = [data |-> k.parsed, timestamp |-> t]]
    ELSE ch

\* ------------------------------------------------- validation (4.1)
\* what a validator may return for a parsed body: success with its output
\* (the body itself or a value converted from it), or failure with a cause
ValidateResults(parsed) ==
    { [success |-> TRUE, data |-> d, error |-> "none"] : d \in {parsed, parsed + 100} }
    \cup { [success |-> FALSE, data |-> 0, error |-> "Missing id field"] }

\* mutant: a rejected body is returned as Success
validateBranchLenient(k, i, v) ==
    [k EXCEPT !.pc = "done",
              !.validated = [seen |-> TRUE, success |-> v.success, data |-> v.data,
                             error |-> v.error, transports |-> k.transports],
              !.result = [kind |-> "ok", data |-> k.parsed, error |-> NoErr,
                          response |-> k.res],
              !.attemptTimer = FALSE, !.totalTimer = FALSE, !.outerTimer = FALSE]

\* `if (init.validate) { const result = init.validate(parsed); ... }`
validateBranch(k, i, v) ==
    LET k1 == [k EXCEPT !.validated =
                   [seen |-> TRUE, success |-> v.success, data |-> v.data,
                    error |-> v.error, transports |-> k.transports]]
    IN  IF ~v.success
        THEN fail(k1, validationError(v.error), "try")
        ELSE [k1 EXCEPT !.pc = "done",
                        !.result = [kind |-> "ok", data |-> v.data, error |-> NoErr,
                                    response |-> k.res],
                        !.attemptTimer = FALSE, !.totalTimer = FALSE,
                        !.outerTimer = FALSE]

\* the classification of the response by the engine that validates: refresh,
\* retry of a non-2xx response, validation, Success
classifyValidated(k, i, rp, settled, p, v) ==
    LET ctx == [response |-> k.res, error |-> NoErr]
        r == i.retries /\ shouldRetry(i, k.attempt, ctx, p)
    IN  IF ~ResOk(k.res)
        THEN IF shouldRefresh(k) THEN RefreshBranch(k, rp, settled)
             ELSE IF r THEN sleepThenRetry(decided(k, i, "http", ctx, p, r))
             ELSE fail(decided(k, i, "http", ctx, p, r), httpError(k.res), "try")
        ELSE IF i.validate THEN validateBranch(k, i, v)
             ELSE succeed(k)

\* the cache after that classification: `if (init.cached) cache.set(...)`
\* follows an accepted validation, or a 2xx response without validator
cacheAfterValidated(k, i, v, ch, t) ==
    IF ResOk(k.res) /\ i.cached /\ (i.validate => v.success)
    THEN [ch EXCEPT ![i.key] = [data |-> IF i.validate THEN v.data ELSE k.parsed,
                                timestamp |-> t]]
    ELSE ch

\* mutant: the retry after the refresh is not flagged as a refresh retry
afterRefreshUnflagged(k, i, fulfilled, t, ch, p) ==
    IF fulfilled
    THEN core([k EXCEPT !.refreshDepth = @ + 1,
                        !.predBefore = Len(k.predAttempts)], i, FALSE, t, ch)
    ELSE fail([k EXCEPT !.awaitedRejected = TRUE], httpError(k.res), "try")

\* a call that awaited refreshPromise, once it has settled
afterRefresh(k, i, fulfilled, t, ch, p) ==
    IF fulfilled
    THEN core([k EXCEPT !.refreshDepth = @ + 1,
                        !.predBefore = Len(k.predAttempts)], i, TRUE, t, ch)
    ELSE IF k.role = "starter"
         THEN fail([k EXCEPT !.awaitedRejected = TRUE], httpError(k.res), "try")
         ELSE catch([k EXCEPT !.awaitedRejected = TRUE], i, FALSE, p)

\* the promise of core rejects; what its finally leaves of the timers
reject(k) ==
    [k EXCEPT !.pc = "rejected",
              !.attemptTimer = FALSE,
              !.totalTimer = IF k.site = "net" \/ k.pc = "netcheck" THEN @ ELSE FALSE,
              !.outerTimer = FALSE]

\* ------------------------------------------------------------- actions
\* the caller invokes api(url, init)
Call(c) ==
    /\ calls[c].pc = "idle"
    /\ calls' = [calls EXCEPT ![c] = core(calls[c], init[c], FALSE, now, cache)]
    /\ cache' = cacheAfterLookup(init[c], FALSE, cache, now)
    /\ ghost' = [ghost EXCEPT
           !.deletedSince =
               [key \in Keys |-> @[key] \/ (cache[key] # NoEntry /\ cache'[key] = NoEntry)],
           !.hitsSince =
               [key \in Keys |->
                   IF key = init[c].key /\ lookupKind(init[c], FALSE, cache, now) = "hit"
                   THEN @[key] + 1 ELSE @[key]]]
    /\ UNCHANGED <<base, init, refreshPromise, now>>

\* mutant: the answer of the check is ignored
afterNetCheckIgnored(k, i, isAvailable, t) ==
    attemptFetch([k EXCEPT !.netChecks = @ + 1, !.netAvailable = isAvailable,
                           !.transportsAtCheck = k.transports], i, 1, t)

\* core after `isAvailable = await base.checkNetworkAvailable()`
afterNetCheck(k, i, isAvailable, t) ==
    LET k1 == [k EXCEPT !.netChecks = @ + 1, !.netAvailable = isAvailable,
                        !.transportsAtCheck = k.transports]
    IN  IF isAvailable THEN attemptFetch(k1, i, 1, t)
        ELSE fail(k1, networkError, "net")

\* `await base.checkNetworkAvailable()` resolves
NetCheck(c, isAvailable) ==
    /\ calls[c].pc = "netcheck"
    /\ calls' = [calls EXCEPT ![c] = afterNetCheck(calls[c], init[c], isAvailable, now)]
    /\ UNCHANGED <<base, init, refreshPromise, cache, now, ghost>>

\* `await base.checkNetworkAvailable()` rejects
NetCheckRejects(c) ==
    /\ calls[c].pc = "netcheck"
    /\ calls' = [calls EXCEPT ![c] = reject(calls[c])]
    /\ UNCHANGED <<base, init, refreshPromise, cache, now, ghost>>

\* the credential base.authentication returns: the one the application
\* holds, written by every refresh that fulfilled
credential == ghost.refreshSettled - ghost.refreshRejected

\* mutant: the provider is asked once per call and its answer is kept
authHeadersOnce(k, cred) ==
    [k EXCEPT !.pc = "onRequest",
              !.authCalls = IF @ = 0 THEN 1 ELSE @,
              !.authToken = IF k.authCalls = 0 THEN cred ELSE @]

\* Object.assign(reqHeadersObj, await base.authentication())
authHeaders(k, cred) ==
    [k EXCEPT !.pc = "onRequest", !.authCalls = @ + 1, !.authToken = cred]

\* `await base.authentication()` resolves: the signals are wired
Auth(c) ==
    /\ calls[c].pc = "auth"
    /\ calls' = [calls EXCEPT ![c] = authHeaders(calls[c], credential)]
    /\ UNCHANGED <<base, init, refreshPromise, cache, now, ghost>>

\* base.authentication() throws
AuthThrows(c) ==
    /\ calls[c].pc = "auth"
    /\ \E p \in RetryOnReturns(init[c]) :
         calls' = [calls EXCEPT ![c] = catch(calls[c], init[c], FALSE, p)]
    /\ UNCHANGED <<base, init, refreshPromise, cache, now, ghost>>

\* `await onRequest` returns and fetch(targetUrl, reqInit) is invoked
OnRequest(c) ==
    /\ calls[c].pc = "onRequest"
    /\ calls' = [calls EXCEPT ![c].pc = "inflight",
                              ![c].transports = calls[c].transports + 1,
                              ![c].sentToken = calls[c].authToken,
                              ![c].fetchAfterAbort = @ \/ calls[c].extAborted,
                              ![c].pollFetchAfterAbort =
                                  IF calls[c].pollOf # 0
                                  THEN @ \/ calls[calls[c].pollOf].pollAbort
                                  ELSE @]
    /\ ghost' = [ghost EXCEPT !.fetches = ghost.fetches + 1]
    /\ UNCHANGED <<base, init, refreshPromise, cache, now>>

\* interceptors.onRequest throws
OnRequestThrows(c) ==
    /\ calls[c].pc = "onRequest"
    /\ base.onRequest
    /\ \E p \in RetryOnReturns(init[c]) :
         calls' = [calls EXCEPT ![c] = catch(calls[c], init[c], FALSE, p)]
    /\ UNCHANGED <<base, init, refreshPromise, cache, now, ghost>>

\* the transport resolves with a response of status s
Respond(c, s) ==
    /\ calls[c].pc = "inflight"
    /\ ~HandedAborted(calls[c], init[c])
    /\ calls' = [calls EXCEPT ![c].pc = "response",
                              ![c].res = s,
                              ![c].parsed = parseBody(s, ghost.fetches),
                              ![c].firstStatus =
                                  IF calls[c].firstStatus = 0 THEN s
                                  ELSE calls[c].firstStatus]
    /\ UNCHANGED <<base, init, refreshPromise, cache, now, ghost>>

\* the transport rejects (no connection)
TransportFail(c) ==
    /\ calls[c].pc = "inflight"
    /\ \E p \in RetryOnReturns(init[c]) :
         calls' = [calls EXCEPT ![c] =
                      catch([calls[c] EXCEPT !.outcomes = @ + 1], init[c], FALSE, p)]
    /\ UNCHANGED <<base, init, refreshPromise, cache, now, ghost>>

\* the signal handed to the transport is aborted: AbortError
TransportAbort(c) ==
    /\ calls[c].pc = "inflight"
    /\ HandedAborted(calls[c], init[c])
    /\ \E p \in RetryOnReturns(init[c]) :
         calls' = [calls EXCEPT ![c] =
                      catch([calls[c] EXCEPT !.outcomes = @ + 1], init[c], TRUE, p)]
    /\ UNCHANGED <<base, init, refreshPromise, cache, now, ghost>>

\* `await onResponse`, `await parseBody` return: the response is classified
Response(c) ==
    /\ calls[c].pc = "response"
    /\ \E p \in RetryOnReturns(init[c]) :
         /\ calls' = [calls EXCEPT ![c] =
                         classify([calls[c] EXCEPT !.outcomes = @ + 1], init[c],
                                  refreshPromise, ghost.refreshSettled, p)]
         /\ cache' = cacheAfterClassify(calls[c], init[c], p, cache, now)
    /\ refreshPromise' =
           IF calls'[c].pc = "awaitRefresh" /\ calls'[c].role = "starter"
           THEN SlotAfterBranch(refreshPromise) ELSE refreshPromise
    /\ ghost' = [ghost EXCEPT
           !.refreshCalls =
               IF calls'[c].pc = "awaitRefresh" /\ calls'[c].role = "starter"
               THEN @ + 1 ELSE @,
           !.lastStore = [key \in Keys |->
               IF cache'[key] # cache[key] THEN cache'[key] ELSE @[key]],
           !.deletedSince = [key \in Keys |->
               IF cache'[key] # cache[key] THEN FALSE ELSE @[key]],
           !.hitsSince = [key \in Keys |->
               IF cache'[key] # cache[key] THEN 0 ELSE @[key]],
           !.okData = IF calls'[c].pc = "done" /\ init[c].cached
                      THEN @ \cup {calls'[c].result.data} ELSE @,
           !.lastOk = [key \in Keys |->
               IF /\ calls'[c].pc = "done" /\ calls'[c].result.kind = "ok"
                  /\ init[c].cached /\ init[c].key = key
               THEN calls'[c].result.data ELSE @[key]],
           !.pollOks = IF /\ calls'[c].pc = "done" /\ calls[c].pollOf # 0
                          /\ calls'[c].result.kind = "ok"
                       THEN @ \cup {calls'[c].result.data} ELSE @,
           !.pollOkCount = IF /\ calls'[c].pc = "done" /\ calls[c].pollOf # 0
                              /\ calls'[c].result.kind = "ok"
                           THEN @ + 1 ELSE @,
           !.pollTouched = @ \/ (calls[c].pollOf # 0 /\ cache' # cache)]
    /\ UNCHANGED <<base, init, now>>

\* `await parseBody` returns in the engine that validates
ResponseValidated(c) ==
    /\ calls[c].pc = "response"
    /\ \E p \in RetryOnReturns(init[c]), v \in ValidateResults(calls[c].parsed) :
         /\ calls' = [calls EXCEPT ![c] =
                         classifyValidated([calls[c] EXCEPT !.outcomes = @ + 1], init[c],
                                           refreshPromise, ghost.refreshSettled, p, v)]
         /\ cache' = cacheAfterValidated(calls[c], init[c], v, cache, now)
    /\ refreshPromise' =
           IF calls'[c].pc = "awaitRefresh" /\ calls'[c].role = "starter"
           THEN SlotAfterBranch(refreshPromise) ELSE refreshPromise
    /\ ghost' = [ghost EXCEPT
           !.refreshCalls =
               IF calls'[c].pc = "awaitRefresh" /\ calls'[c].role = "starter"
               THEN @ + 1 ELSE @,
           !.lastStore = [key \in Keys |->
               IF cache'[key] # cache[key] THEN cache'[key] ELSE @[key]]]
    /\ UNCHANGED <<base, init, now>>

\* interceptors.onResponse throws
OnResponseThrows(c) ==
    /\ calls[c].pc = "response"
    /\ base.onResponse
    /\ \E p \in RetryOnReturns(init[c]) :
         calls' = [calls EXCEPT ![c] = catch(calls[c], init[c], FALSE, p)]
    /\ UNCHANGED <<base, init, refreshPromise, cache, now, ghost>>

\* base.refreshToken() settles: .finally clears the slot, the awaiters resume
RefreshSettle(fulfilled) ==
    /\ refreshPromise = "pending"
    /\ refreshPromise' = SlotAfterSettle(fulfilled)
    /\ \E ps \in [Calls -> BOOLEAN] :
         /\ \A c \in Calls : ps[c] \in RetryOnReturns(init[c])
         /\ calls' = [c \in Calls |->
                         IF calls[c].pc = "awaitRefresh"
                         THEN afterRefresh(calls[c], init[c], fulfilled, now, cache, ps[c])
                         ELSE calls[c]]
    /\ cache' = [key \in Keys |->
                    IF \E c \in Calls :
                          /\ calls[c].pc = "awaitRefresh" /\ fulfilled
                          /\ init[c].key = key
                          /\ cacheAfterLookup(init[c], TRUE, cache, now)[key] = NoEntry
                    THEN NoEntry ELSE cache[key]]
    /\ ghost' = [ghost EXCEPT !.refreshSettled = @ + 1,
                              !.refreshRejected = IF fulfilled THEN @ ELSE @ + 1]
    /\ UNCHANGED <<base, init, now>>

\* `await sleep(delay)` returns: attemptFetch(attempt + 1)
Wake(c) ==
    /\ calls[c].pc = "sleep"
    /\ calls' = [calls EXCEPT ![c] =
                    attemptFetch(calls[c], init[c], calls[c].attempt + 1, now)]
    /\ UNCHANGED <<base, init, refreshPromise, cache, now, ghost>>

\* `await onError` returns: return { ok: false, error: mapped, response? }
OnError(c) ==
    /\ calls[c].pc = "onError"
    /\ calls' = [calls EXCEPT ![c].pc = "done",
                    ![c].onErrorCalls = IF base.onError THEN @ + 1 ELSE @,
                    ![c].observedErr = IF base.onError THEN calls[c].err ELSE @,
                    ![c].result = [kind |-> "fail", data |-> 0, error |-> calls[c].err,
                                   response |-> IF calls[c].site = "try"
                                                THEN calls[c].res ELSE 0],
                    ![c].attemptTimer = FALSE,
                    ![c].totalTimer = IF calls[c].site = "net"
                                      THEN calls[c].totalTimer ELSE FALSE,
                    ![c].outerTimer = FALSE]
    /\ UNCHANGED <<base, init, refreshPromise, cache, now, ghost>>

\* interceptors.onError throws: inside the try block it lands in the catch
\* block, anywhere else it rejects the promise of attemptFetch and of core
OnErrorThrows(c) ==
    /\ calls[c].pc = "onError"
    /\ base.onError
    /\ \E p \in RetryOnReturns(init[c]) :
         calls' = [calls EXCEPT ![c] =
                      IF calls[c].site = "try"
                      THEN catch(calls[c], init[c], FALSE, p)
                      ELSE reject(calls[c])]
    /\ UNCHANGED <<base, init, refreshPromise, cache, now, ghost>>

\* ---------------------------------------------------------- environment
\* the caller aborts the AbortSignal of call c
AbortExternal(c) ==
    /\ init[c].signal
    /\ ~calls[c].extAborted
    /\ calls' = [calls EXCEPT
           ![c].extAborted = TRUE,
           ![c].attemptAborted =
               @ \/ (attemptListensTo(init[c]) = "external" /\ calls[c].pc \in Wired),
           ![c].abortedInCall = calls[c].pc \notin {"done", "rejected"}]
    /\ UNCHANGED <<base, init, refreshPromise, cache, now, ghost>>

\* the total-timeout timer of call c fires
TotalTimerFire(c) ==
    /\ calls[c].totalTimer
    /\ now - calls[c].startedAt >= init[c].totalTimeoutMs
    /\ calls' = [calls EXCEPT
           ![c].totalTimer = FALSE,
           ![c].totalTimedOut = TRUE,
           ![c].overallAborted = TRUE,
           ![c].attemptAborted =
               @ \/ (attemptListensTo(init[c]) = "overall" /\ calls[c].pc \in Wired)]
    /\ UNCHANGED <<base, init, refreshPromise, cache, now, ghost>>

\* the timer of the running attempt of call c fires
AttemptTimerFire(c) ==
    /\ calls[c].attemptTimer
    /\ calls[c].pc \in Wired \cup {"auth"}
    /\ now - calls[c].attemptArmedAt >= init[c].timeoutMs
    /\ calls' = [calls EXCEPT
           ![c].attemptTimer = FALSE,
           ![c].attemptTimedOut = TRUE,
           ![c].attemptAborted = TRUE]
    /\ UNCHANGED <<base, init, refreshPromise, cache, now, ghost>>

\* time passes
Tick ==
    /\ now < MaxTime
    /\ now' = now + 1
    /\ UNCHANGED <<base, init, calls, refreshPromise, cache, ghost>>

\* ------------------------------------------------------- configurations
BaseDefault ==
    [ authentication |-> FALSE, refreshToken |-> FALSE, shouldRefreshToken |-> "none",
      errorMap |-> "none", checkNetworkAvailable |-> FALSE,
      onRequest |-> FALSE, onResponse |-> FALSE, onError |-> FALSE ]

InitDefault ==
    [ retries |-> FALSE, times |-> 0, retryOn |-> "none",
      cached |-> FALSE, cacheTime |-> Undefined, key |-> "GET:/a",
      timeoutMs |-> 0, totalTimeoutMs |-> 0, signal |-> FALSE,
      longPooling |-> FALSE, validate |-> FALSE,
      baseDelayMs |-> Undefined, maxDelayMs |-> Undefined ]

Ghost0 ==
    [ fetches |-> 0, refreshCalls |-> 0, refreshSettled |-> 0, refreshRejected |-> 0,
      lastStore |-> [key \in Keys |-> NoEntry],
      deletedSince |-> [key \in Keys |-> FALSE],
      hitsSince |-> [key \in Keys |-> 0],
      okData |-> {}, rounds |-> 0,
      lastOk |-> [key \in Keys |-> 0],
      polls |-> 0, pollOks |-> {}, pollOkCount |-> 0, pollTouched |-> FALSE,
      backoff |-> [attempt |-> 0, raw |-> 0, prevRaw |-> 0, delay |-> 0] ]

InitCommon ==
    /\ calls = [c \in Calls |-> IdleCall]
    /\ refreshPromise = "null"
    /\ cache = [key \in Keys |-> NoEntry]
    /\ now = 0
    /\ ghost = Ghost0

\* what a caller of the cache passes: cached or not, with a time-to-live or
\* without one, with or without a retry-on-success predicate
CacheConfigs ==
    { [r EXCEPT !.cached = TRUE, !.cacheTime = ct] :
        r \in {InitDefault,
               [InitDefault EXCEPT !.retries = TRUE, !.times = 2, !.retryOn = "custom"]},
        ct \in {1, Undefined} }
    \cup {InitDefault}

\* ------------------------------------------ single-flight refresh (4.3)
InitRefresh ==
    /\ InitCommon
    /\ base = [BaseDefault EXCEPT !.refreshToken = TRUE]
    /\ \E r \in {InitDefault, [InitDefault EXCEPT !.retries = TRUE, !.times = 2]} :
           init = [c \in Calls |-> IF c = 1 THEN InitDefault ELSE r]

NextRefresh ==
    \/ \E c \in Calls : Call(c)
    \/ \E c \in Calls : OnRequest(c)
    \/ \E c \in Calls : \E s \in {200, 401} : Respond(c, s)
    \/ \E c \in Calls : Response(c)
    \/ \E f \in BOOLEAN : RefreshSettle(f)
    \/ \E c \in Calls : Wake(c)
    \/ \E c \in Calls : OnError(c)

SpecRefresh == InitRefresh /\ [][NextRefresh]_vars

\* ------------------------------------- the attempt loop of one call (4.5)
RetryConfigs ==
    {InitDefault} \cup
    { [InitDefault EXCEPT !.retries = TRUE, !.times = n, !.retryOn = r] :
        n \in 0..MaxTimes, r \in {"none", "always", "custom"} }

InitAttempt ==
    /\ InitCommon
    /\ base \in {[BaseDefault EXCEPT !.authentication = a] : a \in BOOLEAN}
    /\ \E r \in RetryConfigs, g \in BOOLEAN, pt \in {0, 1}, tt \in {0, 2} :
           init = [c \in Calls |->
                     IF c = 1
                     THEN [r EXCEPT !.signal = g, !.timeoutMs = pt, !.totalTimeoutMs = tt]
                     ELSE InitDefault]

NextAttempt ==
    \/ Call(1)
    \/ \E c \in Calls : Auth(c)
    \/ \E c \in Calls : OnRequest(c)
    \/ \E c \in Calls : \E s \in {200, 404, 500} : Respond(c, s)
    \/ \E c \in Calls : TransportFail(c)
    \/ \E c \in Calls : TransportAbort(c)
    \/ \E c \in Calls : Response(c)
    \/ \E c \in Calls : Wake(c)
    \/ \E c \in Calls : OnError(c)
    \/ \E c \in Calls : AbortExternal(c)
    \/ \E c \in Calls : TotalTimerFire(c)
    \/ \E c \in Calls : AttemptTimerFire(c)
    \/ Tick

SpecAttempt == InitAttempt /\ [][NextAttempt]_vars

\* ------------------- the default retry predicate: retries without retryOn
InitDefaultRetry ==
    /\ InitCommon
    /\ base = BaseDefault
    /\ \E n \in 1..MaxTimes, g \in BOOLEAN, pt \in {0, 1}, tt \in {0, 2} :
           init = [c \in Calls |->
                     IF c = 1
                     THEN [InitDefault EXCEPT !.retries = TRUE, !.times = n,
                                              !.signal = g, !.timeoutMs = pt,
                                              !.totalTimeoutMs = tt]
                     ELSE InitDefault]

NextDefaultRetry ==
    \/ Call(1)
    \/ \E c \in Calls : OnRequest(c)
    \/ \E c \in Calls : \E s \in {200, 404, 429, 500} : Respond(c, s)
    \/ \E c \in Calls : TransportFail(c)
    \/ \E c \in Calls : TransportAbort(c)
    \/ \E c \in Calls : Response(c)
    \/ \E c \in Calls : Wake(c)
    \/ \E c \in Calls : OnError(c)
    \/ \E c \in Calls : AbortExternal(c)
    \/ \E c \in Calls : TotalTimerFire(c)
    \/ \E c \in Calls : AttemptTimerFire(c)
    \/ Tick

SpecDefaultRetry == InitDefaultRetry /\ [][NextDefaultRetry]_vars

\* ------------------------- retries around a refresh (4.3 with 4.5)
InitRetryRefresh ==
    /\ InitCommon
    /\ base \in {[BaseDefault EXCEPT !.refreshToken = TRUE, !.authentication = a] :
                  a \in BOOLEAN}
    /\ \E n \in 1..MaxTimes, r \in {"none", "custom"} :
           init = [c \in Calls |->
                     IF c = 1
                     THEN [InitDefault EXCEPT !.retries = TRUE, !.times = n, !.retryOn = r]
                     ELSE InitDefault]

NextRetryRefresh ==
    \/ Call(1)
    \/ \E c \in Calls : Auth(c)
    \/ \E c \in Calls : OnRequest(c)
    \/ \E c \in Calls : \E s \in {200, 401, 500} : Respond(c, s)
    \/ \E c \in Calls : TransportFail(c)
    \/ \E c \in Calls : Response(c)
    \/ \E f \in BOOLEAN : RefreshSettle(f)
    \/ \E c \in Calls : Wake(c)
    \/ \E c \in Calls : OnError(c)

SpecRetryRefresh == InitRetryRefresh /\ [][NextRetryRefresh]_vars

\* ------------- the refresh trigger against the retry policy (4.3, 4.5)
InitTrigger ==
    /\ InitCommon
    /\ base \in {[BaseDefault EXCEPT !.refreshToken = TRUE, !.onError = TRUE,
                                     !.shouldRefreshToken = m, !.errorMap = e] :
                  m \in {"none", "is403"}, e \in {"none", "custom"}}
    /\ \E r \in {InitDefault} \cup
                 {[InitDefault EXCEPT !.retries = TRUE, !.times = n, !.retryOn = q] :
                     n \in 1..MaxTimes, q \in {"none", "custom"}} :
           init = [c \in Calls |-> IF c = 1 THEN r ELSE InitDefault]

NextTrigger ==
    \/ Call(1)
    \/ \E c \in Calls : OnRequest(c)
    \/ \E c \in Calls : \E s \in {200, 401, 403, 500} : Respond(c, s)
    \/ \E c \in Calls : TransportFail(c)
    \/ \E c \in Calls : Response(c)
    \/ \E f \in BOOLEAN : RefreshSettle(f)
    \/ \E c \in Calls : Wake(c)
    \/ \E c \in Calls : OnError(c)

SpecTrigger == InitTrigger /\ [][NextTrigger]_vars

\* ------------------------------------- the response validator (4.1)
ValidateConfigs ==
    { [r EXCEPT !.validate = TRUE, !.cached = ch] :
        r \in {InitDefault,
               [InitDefault EXCEPT !.retries = TRUE, !.times = 2, !.retryOn = "always"]},
        ch \in BOOLEAN }

InitValidate ==
    /\ InitCommon
    /\ base \in {[BaseDefault EXCEPT !.refreshToken = f] : f \in BOOLEAN}
    /\ \E r \in ValidateConfigs :
           init = [c \in Calls |->
                     IF c = 1 THEN r ELSE [InitDefault EXCEPT !.cached = TRUE]]

NextValidate ==
    \/ \E c \in {1, 2} : Call(c)
    \/ \E c \in Calls : OnRequest(c)
    \/ \E c \in Calls : \E s \in {200, 401, 500} : Respond(c, s)
    \/ \E c \in Calls : ResponseValidated(c)
    \/ \E f \in BOOLEAN : RefreshSettle(f)
    \/ \E c \in Calls : Wake(c)
    \/ \E c \in Calls : OnError(c)

SpecValidate == InitValidate /\ [][NextValidate]_vars

\* ------------------------ the total deadline around a refresh (4.1, 4.3)
InitDeadline ==
    /\ InitCommon
    /\ base = [BaseDefault EXCEPT !.refreshToken = TRUE]
    /\ \E r \in {InitDefault, [InitDefault EXCEPT !.retries = TRUE, !.times = 2]},
          tt \in {1, 2} :
           init = [c \in Calls |->
                     IF c = 1 THEN [r EXCEPT !.totalTimeoutMs = tt] ELSE InitDefault]

NextDeadline ==
    \/ Call(1)
    \/ \E c \in Calls : OnRequest(c)
    \/ \E c \in Calls : \E s \in {200, 401, 500} : Respond(c, s)
    \/ \E c \in Calls : TransportAbort(c)
    \/ \E c \in Calls : Response(c)
    \/ \E f \in BOOLEAN : RefreshSettle(f)
    \/ \E c \in Calls : Wake(c)
    \/ \E c \in Calls : OnError(c)
    \/ \E c \in Calls : TotalTimerFire(c)
    \/ Tick

SpecDeadline == InitDeadline /\ [][NextDeadline]_vars

\* --------------------- termination: retries and refresh under fairness
InitLive ==
    /\ InitCommon
    /\ base = [BaseDefault EXCEPT !.refreshToken = TRUE]
    /\ \E r \in {InitDefault, [InitDefault EXCEPT !.retries = TRUE, !.times = 2]} :
           init = [c \in Calls |-> IF c = 1 THEN r ELSE InitDefault]

\* the steps of call c the event loop runs once they are ready: the hook
\* returns, the transport answers, the body is parsed, the sleep ends
LiveStep(c) ==
    \/ OnRequest(c)
    \/ \E s \in {200, 401, 500} : Respond(c, s)
    \/ TransportFail(c)
    \/ Response(c)
    \/ Wake(c)
    \/ OnError(c)

NextLive ==
    \/ \E c \in {1, 2} : Call(c)
    \/ \E c \in {1, 2} : LiveStep(c)
    \/ \E f \in BOOLEAN : RefreshSettle(f)

\* every transport call, hook and sleep of a call settles, and so does the
\* refresh operation
SpecLive ==
    /\ InitLive
    /\ [][NextLive]_vars
    /\ \A c \in {1, 2} : WF_vars(LiveStep(c))
    /\ WF_vars(\E f \in BOOLEAN : RefreshSettle(f))

\* --------------------------- concurrent calls on one cache key (4.4, 5)
InitShared ==
    /\ InitCommon
    /\ base = BaseDefault
    /\ \E ct \in {1, Undefined}, r \in {InitDefault, [InitDefault EXCEPT !.cached = TRUE]} :
           init = [c \in Calls |->
                     IF c = 1 THEN [InitDefault EXCEPT !.cached = TRUE, !.cacheTime = ct]
                     ELSE r]

NextShared ==
    \/ \E c \in {1, 2} : Call(c)
    \/ \E c \in Calls : OnRequest(c)
    \/ \E c \in Calls : \E s \in {200, 500} : Respond(c, s)
    \/ \E c \in Calls : Response(c)
    \/ \E c \in Calls : OnError(c)
    \/ Tick

SpecShared == InitShared /\ [][NextShared]_vars

\* ------------------------------------------ the backoff delay (4.2)
Min(a, b) == IF a <= b THEN a ELSE b

\* Math.round of the rational num/den (den > 0, num >= 0)
Round(num, den) == (2 * num + den) \div (2 * den)

\* raw = Math.min(max, base * 2 ** (attempt - 1))
backoffRaw(attempt, cfg) ==
    LET b == IF cfg.baseDelayMs = Undefined THEN 300 ELSE cfg.baseDelayMs
        m == IF cfg.maxDelayMs = Undefined THEN 2000 ELSE cfg.maxDelayMs
    IN  Min(m, b * 2 ^ (attempt - 1))

\* jitter = Math.random() * (raw * 0.2), with Math.random() = rnd/RandomSteps;
\* the result is Math.round(raw + jitter)
backoffDelay(attempt, cfg, rnd) ==
    LET raw == backoffRaw(attempt, cfg)
    IN  Round(raw * 5 * RandomSteps + raw * rnd, 5 * RandomSteps)

\* the delay of the next attempt number is computed
Backoff(rnd) ==
    /\ ghost.backoff.attempt < MaxBackoffAttempt
    /\ ghost' = [ghost EXCEPT !.backoff =
                    [attempt |-> @.attempt + 1,
                     prevRaw |-> @.raw,
                     raw |-> backoffRaw(@.attempt + 1, init[1]),
                     delay |-> backoffDelay(@.attempt + 1, init[1], rnd)]]
    /\ UNCHANGED <<base, init, calls, refreshPromise, cache, now>>

InitBackoff ==
    /\ InitCommon
    /\ base = BaseDefault
    /\ \E b \in {Undefined, 0, 1, 3, 100}, m \in {Undefined, 0, 2, 10, 150} :
           init = [c \in Calls |->
                     IF c = 1
                     THEN [InitDefault EXCEPT !.retries = TRUE, !.times = MaxTimes,
                                              !.baseDelayMs = b, !.maxDelayMs = m]
                     ELSE InitDefault]

NextBackoff == \E rnd \in 0..(RandomSteps - 1) : Backoff(rnd)

SpecBackoff == InitBackoff /\ [][NextBackoff]_vars

\* --------------------------------------------------- Retry-After (4.2)
DigitOf ==
    ("0" :> 0) @@ ("1" :> 1) @@ ("2" :> 2) @@ ("3" :> 3) @@ ("4" :> 4) @@
    ("5" :> 5) @@ ("6" :> 6) @@ ("7" :> 7) @@ ("8" :> 8) @@ ("9" :> 9)

\* the value of the longest prefix of digits of text, continuing from acc;
\* seen tells whether a digit was read
RECURSIVE digitsPrefix(_, _, _)
digitsPrefix(text, acc, seen) ==
    IF text # <<>> /\ Head(text) \in DOMAIN DigitOf
    THEN digitsPrefix(Tail(text), 10 * acc + DigitOf[Head(text)], TRUE)
    ELSE IF seen THEN [nan |-> FALSE, val |-> acc] ELSE NaN

\* parseInt(text, 10): leading blanks, an optional sign, then the digits up
\* to the first character that is not one; NaN without a digit
RECURSIVE parseInt(_)
parseInt(text) ==
    IF text = <<>> THEN NaN
    ELSE IF Head(text) = " " THEN parseInt(Tail(text))
    ELSE IF Head(text) = "-"
         THEN LET r == digitsPrefix(Tail(text), 0, FALSE)
              IN  IF r.nan THEN NaN ELSE [nan |-> FALSE, val |-> 0 - r.val]
    ELSE IF Head(text) = "+" THEN digitsPrefix(Tail(text), 0, FALSE)
    ELSE digitsPrefix(text, 0, FALSE)

Max(a, b) == IF a >= b THEN a ELSE b

\* parseRetryAfter(res) at time t: null, or the delay in milliseconds
parseRetryAfter(h, t) ==
    IF h.text = <<>> THEN [null |-> TRUE, ms |-> 0]
    ELSE IF ~parseInt(h.text).nan
         THEN [null |-> FALSE, ms |-> parseInt(h.text).val * 1000]
    ELSE IF ~h.date.nan
         THEN [null |-> FALSE, ms |-> Max(0, h.date.val - t)]
    ELSE [null |-> TRUE, ms |-> 0]

\* mutant: the header is honoured whatever the status
retryDelayAnyStatus(attempt, cfg, rnd, status, h, t) ==
    IF ~parseRetryAfter(h, t).null THEN parseRetryAfter(h, t).ms
    ELSE backoffDelay(attempt, cfg, rnd)

\* `let delay = backoffDelay(attempt, retries); if (res.status === 429) {...}`
retryDelay(attempt, cfg, rnd, status, h, t) ==
    IF status = 429 /\ ~parseRetryAfter(h, t).null
    THEN parseRetryAfter(h, t).ms
    ELSE backoffDelay(attempt, cfg, rnd)

\* classify, with the delay handed to sleep when the response is retried:
\* retryDelay for a non-2xx response, backoffDelay for a 2xx one
classifyDelayed(k, i, rp, settled, p, rnd, t) ==
    LET k1 == classify(k, i, rp, settled, p)
    IN  IF k1.pc = "sleep"
        THEN [k1 EXCEPT !.delay = IF ResOk(k.res)
                                  THEN backoffDelay(k.attempt, i, rnd)
                                  ELSE retryDelay(k.attempt, i, rnd, k.res,
                                                  k.retryAfter, t),
                        !.delayRnd = rnd, !.delayAt = t]
        ELSE k1

\* the transport resolves with a response of status s and Retry-After h
RespondRetryAfter(c, s, h) ==
    /\ calls[c].pc = "inflight"
    /\ calls' = [calls EXCEPT ![c].pc = "response",
                              ![c].res = s,
                              ![c].retryAfter = h,
                              ![c].parsed = parseBody(s, ghost.fetches)]
    /\ UNCHANGED <<base, init, refreshPromise, cache, now, ghost>>

\* the response is classified; Math.random() returns rnd/RandomSteps
ResponseDelayed(c, rnd) ==
    /\ calls[c].pc = "response"
    /\ \E p \in RetryOnReturns(init[c]) :
         /\ calls' = [calls EXCEPT ![c] =
                         classifyDelayed([calls[c] EXCEPT !.outcomes = @ + 1], init[c],
                                         refreshPromise, ghost.refreshSettled, p,
                                         rnd, now)]
         /\ cache' = cacheAfterClassify(calls[c], init[c], p, cache, now)
    /\ UNCHANGED <<base, init, refreshPromise, now, ghost>>

\* the headers a server answers with: none, integer seconds, a text that
\* starts with digits, a negative number, HTTP dates, a text that is neither
RetryAfterHeaders ==
    { NoHeader,
      [text |-> <<"2">>, date |-> NaN],
      [text |-> <<"1", "0">>, date |-> NaN],
      [text |-> <<"0", ".", "0", "0", "1">>, date |-> NaN],
      [text |-> <<"-", "1">>, date |-> NaN],
      [text |-> <<"s", "o", "o", "n">>, date |-> NaN] }
    \cup { [text |-> <<"W", "e", "d", ",">>, date |-> [nan |-> FALSE, val |-> d]] :
             d \in {1, MaxTime + 2} }

InitRetryAfter ==
    /\ InitCommon
    /\ base = BaseDefault
    /\ \E q \in {"none", "custom"}, b \in {Undefined, 0} :
           init = [c \in Calls |->
                     IF c = 1
                     THEN [InitDefault EXCEPT !.retries = TRUE, !.times = 2,
                                              !.retryOn = q, !.baseDelayMs = b]
                     ELSE InitDefault]

NextRetryAfter ==
    \/ Call(1)
    \/ \E c \in Calls : OnRequest(c)
    \/ \E c \in Calls : \E s \in {200, 429, 503}, h \in RetryAfterHeaders :
          RespondRetryAfter(c, s, h)
    \/ \E c \in Calls : \E rnd \in 0..(RandomSteps - 1) : ResponseDelayed(c, rnd)
    \/ \E c \in Calls : Wake(c)
    \/ \E c \in Calls : OnError(c)
    \/ Tick

SpecRetryAfter == InitRetryAfter /\ [][NextRetryAfter]_vars

\* -------------------------------- the network-availability check
InitNetCheck ==
    /\ InitCommon
    /\ base \in { [BaseDefault EXCEPT !.checkNetworkAvailable = TRUE,
                                      !.refreshToken = TRUE, !.onError = TRUE,
                                      !.errorMap = m] :
                   m \in {"none", "rename", "throws"} }
    /\ \E r \in {InitDefault, [InitDefault EXCEPT !.retries = TRUE, !.times = 2]} :
           init = [c \in Calls |-> IF c = 1 THEN r ELSE InitDefault]

NextNetCheck ==
    \/ Call(1)
    \/ \E c \in Calls : \E b \in BOOLEAN : NetCheck(c, b)
    \/ \E c \in Calls : OnRequest(c)
    \/ \E c \in Calls : \E s \in {200, 401, 500} : Respond(c, s)
    \/ \E c \in Calls : Response(c)
    \/ \E f \in BOOLEAN : RefreshSettle(f)
    \/ \E c \in Calls : Wake(c)
    \/ \E c \in Calls : OnError(c)

SpecNetCheck == InitNetCheck /\ [][NextNetCheck]_vars

\* ------------------------------- results and the error mapper (4.1, 7)
ErrorMaps == {"none", "rename", "custom", "invalid", "throws"}

InitErrorMap ==
    /\ InitCommon
    /\ base \in { [BaseDefault EXCEPT !.errorMap = m, !.checkNetworkAvailable = n] :
                   m \in ErrorMaps, n \in BOOLEAN }
    /\ \E r \in {InitDefault, [InitDefault EXCEPT !.retries = TRUE, !.times = 2]},
          pt \in {0, 1} :
           init = [c \in Calls |->
                     IF c = 1 THEN [r EXCEPT !.timeoutMs = pt] ELSE InitDefault]

NextErrorMap ==
    \/ Call(1)
    \/ \E c \in Calls : \E b \in BOOLEAN : NetCheck(c, b)
    \/ \E c \in Calls : OnRequest(c)
    \/ \E c \in Calls : \E s \in {200, 204, 404, 500} : Respond(c, s)
    \/ \E c \in Calls : TransportFail(c)
    \/ \E c \in Calls : TransportAbort(c)
    \/ \E c \in Calls : Response(c)
    \/ \E c \in Calls : Wake(c)
    \/ \E c \in Calls : OnError(c)
    \/ \E c \in Calls : AttemptTimerFire(c)
    \/ Tick

SpecErrorMap == InitErrorMap /\ [][NextErrorMap]_vars

\* --------------------------------- misbehaving collaborators (4.5, 7)
InitHooks ==
    /\ InitCommon
    /\ base \in { [ authentication |-> TRUE, refreshToken |-> TRUE,
                    shouldRefreshToken |-> "none", errorMap |-> m,
                    checkNetworkAvailable |-> TRUE,
                    onRequest |-> TRUE, onResponse |-> TRUE, onError |-> TRUE ] :
                  m \in {"none", "throws"} }
    /\ \E r \in {InitDefault, [InitDefault EXCEPT !.retries = TRUE, !.times = MaxTimes]},
          tt \in {0, 2} :
           init = [c \in Calls |->
                     IF c = 1 THEN [r EXCEPT !.totalTimeoutMs = tt] ELSE InitDefault]

NextHooks ==
    \/ Call(1)
    \/ \E c \in Calls : \E b \in BOOLEAN : NetCheck(c, b)
    \/ \E c \in Calls : NetCheckRejects(c)
    \/ \E c \in Calls : Auth(c)
    \/ \E c \in Calls : AuthThrows(c)
    \/ \E c \in Calls : OnRequest(c)
    \/ \E c \in Calls : OnRequestThrows(c)
    \/ \E c \in Calls : \E s \in {200, 401, 500} : Respond(c, s)
    \/ \E c \in Calls : TransportFail(c)
    \/ \E c \in Calls : Response(c)
    \/ \E c \in Calls : OnResponseThrows(c)
    \/ \E f \in BOOLEAN : RefreshSettle(f)
    \/ \E c \in Calls : Wake(c)
    \/ \E c \in Calls : OnError(c)
    \/ \E c \in Calls : OnErrorThrows(c)

SpecHooks == InitHooks /\ [][NextHooks]_vars

\* ------------------------------------------------ the response cache (4.4)
\* the caller issues its next request on the same engine once the previous
\* one has returned
Again(c) ==
    /\ calls[c].pc = "done"
    /\ ghost.rounds < MaxRounds
    /\ \E r \in CacheConfigs :
         init' = [init EXCEPT ![c] = r]
    /\ calls' = [calls EXCEPT ![c] = IdleCall]
    /\ ghost' = [ghost EXCEPT !.rounds = @ + 1]
    /\ UNCHANGED <<base, refreshPromise, cache, now>>

InitCache ==
    /\ InitCommon
    /\ base = BaseDefault
    /\ \E r \in CacheConfigs :
           init = [c \in Calls |-> IF c = 1 THEN r ELSE InitDefault]

NextCache ==
    \/ Call(1)
    \/ \E c \in Calls : OnRequest(c)
    \/ \E c \in Calls : \E s \in {200, 500} : Respond(c, s)
    \/ \E c \in Calls : Response(c)
    \/ \E c \in Calls : Wake(c)
    \/ \E c \in Calls : OnError(c)
    \/ Again(1)
    \/ Tick

SpecCache == InitCache /\ [][NextCache]_vars

\* --------------------------------------------------- long polling (4.6)
\* `await sleep(polling.interval)` of a poller of call c returns: the loop
\* ends, or core(url, pollingInit, isRefreshRetry) is invoked (it runs as
\* the call of a free slot s)
PollWake(c, f) ==
    /\ calls[c].poller[f].st = "sleep"
    /\ IF afterSleep(calls[c].pollAbort) = "stopped"
       THEN /\ calls' = [calls EXCEPT ![c].poller[f].st = "stopped"]
            /\ UNCHANGED <<init, cache, ghost>>
       ELSE /\ ghost.polls < MaxPolls
            /\ \E s \in Calls \ {c} :
                 /\ calls[s].pc = "idle"
                 /\ \A x \in Calls \ {c} : calls[x].pc = "idle" => s <= x
                 /\ init' = [init EXCEPT ![s] = pollingInit(init[c])]
                 /\ calls' = [calls EXCEPT
                        ![c].poller[f].st = "poll",
                        ![c].poller[f].slot = s,
                        ![c].pollStartAfterAbort = @ \/ calls[c].pollAbort,
                        ![s] = core([IdleCall EXCEPT !.pollOf = c, !.pollFlag = f],
                                    pollingInit(init[c]), f, now, cache)]
                 /\ cache' = cacheAfterLookup(pollingInit(init[c]), f, cache, now)
            /\ ghost' = [ghost EXCEPT !.polls = @ + 1,
                                      !.pollTouched = @ \/ cache' # cache]
    /\ UNCHANGED <<base, refreshPromise, now>>

\* the re-invocation running in slot s has returned: the poller that awaits
\* it goes on
PollReturn(s) ==
    /\ calls[s].pollOf # 0
    /\ calls[s].pc = "done"
    /\ LET c == calls[s].pollOf
           f == calls[s].pollFlag
       IN  calls' = [calls EXCEPT
               ![c].poller[f] = afterPoll(@, calls[s].result, calls[c].pollAbort),
               ![s] = IdleCall]
    /\ init' = [init EXCEPT ![s] = InitDefault]
    /\ UNCHANGED <<base, refreshPromise, cache, now, ghost>>

\* the caller aborts polling.abort of call c
PollAbort(c) ==
    /\ init[c].longPooling
    /\ ~calls[c].pollAbort
    /\ calls' = [calls EXCEPT ![c].pollAbort = TRUE]
    /\ UNCHANGED <<base, init, refreshPromise, cache, now, ghost>>

\* the engine has a cached entry of an earlier call, or none
InitPoll ==
    /\ calls = [c \in Calls |-> IdleCall]
    /\ refreshPromise = "null"
    /\ now = 0
    /\ base = [BaseDefault EXCEPT !.refreshToken = TRUE]
    /\ \E cd \in BOOLEAN :
           init = [c \in Calls |->
                     IF c = 1 THEN [InitDefault EXCEPT !.longPooling = TRUE, !.cached = cd]
                     ELSE InitDefault]
    /\ \E e \in {NoEntry, [data |-> 1, timestamp |-> 0]} :
           /\ cache = [key \in Keys |-> e]
           /\ ghost = [Ghost0 EXCEPT
                  !.fetches = IF e = NoEntry THEN 0 ELSE 1,
                  !.okData = IF e = NoEntry THEN {} ELSE {1},
                  !.lastStore = [key \in Keys |-> e]]

NextPoll ==
    \/ Call(1)
    \/ \E c \in Calls : OnRequest(c)
    \/ \E c \in Calls : \E s \in {200, 401, 500} : Respond(c, s)
    \/ \E c \in Calls : Response(c)
    \/ \E f \in BOOLEAN : RefreshSettle(f)
    \/ \E c \in Calls : OnError(c)
    \/ \E f \in BOOLEAN : PollWake(1, f)
    \/ \E s \in Calls : PollReturn(s)
    \/ PollAbort(1)

SpecPoll == InitPoll /\ [][NextPoll]_vars

\* the event loop runs every continuation that is ready, timers expire and
\* the transport and the refresh operation answer
SpecPollLive == InitPoll /\ [][NextPoll]_vars /\ WF_vars(NextPoll)

\* ================================================================ claims
\* every call ran the refresh branch on its first attempt
C1_AllFirst == \A c \in Calls : calls[c].firstRole # "none"

\* ... and did so before any refresh had settled
C1_AllBeforeSettle == \A c \in Calls : calls[c].firstRole # "none" /\ calls[c].discoveredAt = 0

\* a call is in its post-refresh retry only if the refresh it awaited has settled
C1_RetryAfterSettle ==
    \A c \in Calls : calls[c].isRefreshRetry => ghost.refreshSettled > calls[c].discoveredAt

\* C1 as stated: whenever all N calls received the refresh-triggering status
\* on their first attempt, whatever the order of response arrival and refresh
\* settlement, refreshToken has been invoked exactly once, and a call is in
\* its post-refresh retry only after that refresh settled.
CE_C1 ==
    /\ C1_AllFirst => ghost.refreshCalls = 1
    /\ C1_RetryAfterSettle

\* C1 amended: when all N calls receive the refresh-triggering status on their
\* first attempt before any refresh has settled, exactly one of these first
\* attempts invokes refreshToken and every other one awaits that pending
\* operation (one invocation in all when it fulfils); a call is in its
\* post-refresh retry only after the refresh it awaited has settled.
Thm_C1 ==
    /\ C1_AllBeforeSettle =>
           Cardinality({c \in Calls : calls[c].firstRole = "starter"}) = 1
    /\ C1_AllBeforeSettle /\ ghost.refreshRejected = 0 => ghost.refreshCalls = 1
    /\ C1_RetryAfterSettle

\* C1's case: both calls joined one refresh and are in their retried attempt
Wit_C1 ==
    /\ C1_AllBeforeSettle
    /\ ghost.refreshCalls = 1
    /\ \A c \in Calls : calls[c].isRefreshRetry /\ calls[c].transports = 2

\* C2: a call that awaited a refresh that rejected ends with an HTTP failure
\* carrying the status of its own response that triggered the refresh, with
\* that response attached, and invokes the transport no more.
CE_C2 ==
    \A c \in Calls :
        calls[c].awaitedRejected =>
            /\ calls[c].pc \in {"onError", "done"}
            /\ calls[c].err = httpError(calls[c].trigger)
            /\ calls[c].pc = "done" =>
                   /\ calls[c].result.kind = "fail"
                   /\ calls[c].result.error.name = "HttpError"
                   /\ calls[c].result.error.status = calls[c].trigger
                   /\ calls[c].result.response = calls[c].trigger

\* the budget part of C3: transport invocations never exceed the budget and
\* no retry is decided at an attempt >= times
C3_Budget ==
    \A c \in Calls :
        /\ calls[c].lastRetryAt = 0 \/ calls[c].lastRetryAt < init[c].times
        /\ init[c].retries /\ init[c].times >= 1 => calls[c].transports <= init[c].times

\* C3 as stated: for times = k, a call all of whose attempts were classified
\* retryable has made exactly k transport invocations when it returns.
CE_C3 ==
    /\ C3_Budget
    /\ \A c \in Calls :
           calls[c].pc = "done" /\ init[c].retries /\ calls[c].allRetryable =>
               calls[c].transports = init[c].times

\* C3 amended: the same for times = k >= 1 (with times = 0 the one attempt
\* every call makes is still made).
Thm_C3 ==
    /\ C3_Budget
    /\ \A c \in Calls :
           /\ calls[c].pc = "done" /\ init[c].retries /\ calls[c].allRetryable
           /\ init[c].times >= 1
           => calls[c].transports = init[c].times

\* C3's case: a call with budget 2 returned after two retryable attempts
Wit_C3 ==
    /\ calls[1].pc = "done" /\ calls[1].allRetryable
    /\ init[1].retries /\ init[1].times = 2 /\ calls[1].transports = 2
    /\ calls[1].lastRetryAt = 1

\* C4 as stated: once the external signal has fired during a call, the call
\* decides no retry, starts no transport invocation, and ends with a
\* Network-kind error.
CE_C4 ==
    \A c \in Calls :
        calls[c].abortedInCall =>
            /\ ~calls[c].retryAfterAbort
            /\ ~calls[c].fetchAfterAbort
            /\ calls[c].pc = "done" =>
                   /\ calls[c].result.kind = "fail"
                   /\ calls[c].result.error.name = "NetworkError"

\* C4 amended: once the external signal has fired, the call decides no retry
\* and no attempt passes its top-of-attempt check; the attempt whose check
\* sees the signal invokes no transport and ends the call with a Network-kind
\* error.  (An attempt already past its check still runs to its own result.)
Thm_C4 ==
    \A c \in Calls :
        /\ ~calls[c].retryAfterAbort
        /\ ~calls[c].startAfterAbort
        /\ calls[c].shortCircuit = "aborted" =>
               /\ calls[c].pc \in {"onError", "done"}
               /\ calls[c].err.name = "NetworkError"
               /\ calls[c].pc = "done" =>
                      /\ calls[c].result.kind = "fail"
                      /\ calls[c].result.error.name = "NetworkError"

\* C4's case: the signal fired while the call slept before a retry, and the
\* next attempt ended the call at its top
Wit_C4 ==
    /\ calls[1].pc = "done" /\ calls[1].shortCircuit = "aborted"
    /\ calls[1].abortedInCall /\ calls[1].attempt = 2 /\ calls[1].transports = 1

\* C5: while a transport call is in flight, an abort of the attempt scope,
\* of the total scope or of the external signal has aborted the signal that
\* was handed to the transport.
CE_C5 ==
    \A c \in Calls :
        /\ calls[c].pc = "inflight"
        /\ calls[c].extAborted \/ calls[c].overallAborted \/ calls[c].attemptAborted
        => HandedAborted(calls[c], init[c])

\* C6: the promise returned by the entry point never rejects.
CE_C6 == \A c \in Calls : calls[c].pc # "rejected"

\* C7: an observer has no effect on the control flow: after onRequest the
\* transport is invoked, after onResponse the response is classified, after
\* onError the failure is returned, whether or not the observer threw.
CE_C7 ==
    [][\A c \in Calls :
          /\ calls[c].pc = "onRequest" /\ calls'[c].pc # "onRequest"
                 => calls'[c].pc = "inflight"
          /\ calls[c].pc = "response" /\ calls'[c] # calls[c]
                 => \E p \in BOOLEAN :
                        calls'[c] = classify(calls[c], init[c], refreshPromise,
                                             ghost.refreshSettled, p)
          /\ calls[c].pc = "onError" /\ calls'[c].pc # "onError"
                 => calls'[c].pc = "done"]_vars

\* C8: a cache entry is written only in the step in which a call with caching
\* requested returns its terminal Success, and with the data of that result:
\* not by a call that ends in failure, not by a failed attempt that is
\* retried, not by a 2xx response the retry-on-success predicate retries past.
Thm_C8 ==
    [][\A key \in Keys :
          cache'[key] # cache[key] /\ cache'[key] # NoEntry =>
              \E c \in Calls :
                  /\ init[c].cached /\ init[c].key = key
                  /\ calls[c].pc # "done" /\ calls'[c].pc = "done"
                  /\ calls'[c].result.kind = "ok"
                  /\ calls'[c].result.data = cache'[key].data]_vars

\* C8's case: a cached call whose first 2xx was retried past has returned
\* Success, and the entry holds the data of its last attempt
Wit_C8 ==
    /\ calls[1].pc = "done" /\ calls[1].result.kind = "ok"
    /\ init[1].cached /\ calls[1].transports = 2 /\ calls[1].firstStatus = 200
    /\ cache[init[1].key].data = calls[1].result.data
    /\ ghost.fetches = 2

C10_Expiry ==
    \A c \in Calls :
        /\ calls[c].lookup = "expired" =>
               calls[c].surfaced = 0 /\ calls[c].entryAfterLookup = NoEntry
        /\ calls[c].lookup = "hit" =>
               calls[c].lookupWithin /\ calls[c].surfaced = calls[c].lookupExpect
        /\ calls[c].lookup \in {"miss", "expired"} => calls[c].surfaced = 0

\* C10 as stated: a read within its time-to-live of the last store, made
\* after another read already surfaced the stored value and with no store in
\* between, surfaces that same value; an expired read surfaces nothing and
\* deletes the entry.
CE_C10 ==
    /\ C10_Expiry
    /\ \A c \in Calls :
           calls[c].lookupWithin /\ calls[c].lookupAfterHit =>
               calls[c].lookup = "hit" /\ calls[c].surfaced = calls[c].lookupExpect

\* C10 amended: the same, provided no read in between found the entry
\* expired under its own cacheTime (the time-to-live is a parameter of each
\* call, and such a read deletes the entry for every later reader).
Thm_C10 ==
    /\ C10_Expiry
    /\ \A c \in Calls :
           /\ calls[c].lookupWithin /\ calls[c].lookupAfterHit
           /\ ~calls[c].lookupDeletedSince
           => calls[c].lookup = "hit" /\ calls[c].surfaced = calls[c].lookupExpect

\* C10's case: the second read of one stored value surfaces it again
Wit_C10 ==
    /\ calls[1].lookup = "hit" /\ calls[1].lookupAfterHit
    /\ ghost.hitsSince[init[1].key] = 2
    /\ calls[1].surfaced = ghost.lastStore[init[1].key].data
    /\ now > ghost.lastStore[init[1].key].timestamp

\* C12: no call has returned to its caller (with a result or an exception)
\* while a total-timeout timer it armed is still armed.
CE_C12 ==
    \A c \in Calls :
        calls[c].pc \in {"done", "rejected"} =>
            ~calls[c].totalTimer /\ ~calls[c].outerTimer

\* C13: the error of an attempt that ended in the catch block is Timeout
\* with the total value when the exception is an abort and the total flag is
\* set (whatever the attempt's flag), Timeout with the per-attempt value when
\* it is an abort, the total flag is not set and the attempt's flag is set,
\* and Network in every other case.
Thm_C13 ==
    \A c \in Calls :
        calls[c].caught.seen =>
            /\ calls[c].caught.isAbort /\ calls[c].caught.total =>
                   calls[c].caughtErr = timeoutError(init[c].totalTimeoutMs)
            /\ calls[c].caught.isAbort /\ ~calls[c].caught.total /\ calls[c].caught.attempt =>
                   calls[c].caughtErr = timeoutError(init[c].timeoutMs)
            /\ ~calls[c].caught.isAbort
               \/ (~calls[c].caught.total /\ ~calls[c].caught.attempt) =>
                   calls[c].caughtErr = networkError
            /\ calls[c].pc = "onError" /\ calls[c].site = "catch" =>
                   calls[c].err = calls[c].caughtErr

\* C13's case: an abort caught with both timer flags set ends the call with
\* the total value
Wit_C13 ==
    /\ calls[1].caught.isAbort /\ calls[1].caught.total /\ calls[1].caught.attempt
    /\ init[1].timeoutMs = 1 /\ init[1].totalTimeoutMs = 2
    /\ calls[1].pc = "done" /\ calls[1].result.error = timeoutError(2)

\* C14: no attempt gets past its top with the external signal fired or the
\* total deadline elapsed; the attempt that finds the signal fired ends the
\* call with a Network failure, otherwise the one that finds the deadline
\* elapsed ends it with Timeout(total); neither invokes the transport.
Thm_C14 ==
    \A c \in Calls :
        /\ ~calls[c].startAfterAbort
        /\ ~calls[c].startAfterDeadline
        /\ calls[c].shortCircuit # "none" =>
               /\ calls[c].pc \in {"onError", "done"}
               /\ calls[c].transports = calls[c].transportsAtTop
               /\ calls[c].err =
                      IF calls[c].shortCircuit = "aborted" THEN networkError
                      ELSE timeoutError(init[c].totalTimeoutMs)
               /\ calls[c].pc = "done" =>
                      /\ calls[c].result.kind = "fail"
                      /\ calls[c].result.error = calls[c].err
                      /\ calls[c].result.response = 0

\* C14's case: the deadline elapsed during the sleep before attempt 2, which
\* ended the call without a transport invocation
Wit_C14 ==
    /\ calls[1].shortCircuit = "deadline" /\ calls[1].pc = "done"
    /\ calls[1].attempt = 2 /\ calls[1].transports = 1
    /\ calls[1].result.error = timeoutError(2)

\* C18: a call that is a post-refresh retry never enters the refresh branch
\* again: a refresh-triggering status it receives ends it as an HTTP failure
\* (or goes through the retry policy), and the refresh-retry re-invocation
\* happens at most once per logical call.
Thm_C18 ==
    \A c \in Calls :
        /\ calls[c].refreshDepth <= 1
        /\ calls[c].isRefreshRetry =>
               /\ calls[c].refreshDepth = 1
               /\ calls[c].pc # "awaitRefresh"
               /\ calls[c].pc = "done" /\ calls[c].res = 401 /\ ~init[c].retries =>
                      /\ calls[c].result.kind = "fail"
                      /\ calls[c].result.error = httpError(401)

\* C18's case: the post-refresh retry was answered 401 again and the call
\* ended with that HTTP failure after a single refresh
Wit_C18 ==
    /\ calls[1].isRefreshRetry /\ calls[1].pc = "done"
    /\ calls[1].result.error = httpError(401)
    /\ calls[1].transports = 2 /\ ghost.refreshCalls = 1

\* C19: once every refresh operation that was started has settled, by
\* success or by failure, the slot is empty; a call awaits the slot only
\* while the operation it holds is pending, so an attempt that meets the
\* refresh-triggering status after a settlement starts a new operation.
Thm_C19 ==
    /\ ghost.refreshSettled = ghost.refreshCalls => refreshPromise = "null"
    /\ \A c \in Calls :
           calls[c].pc = "awaitRefresh" =>
               /\ refreshPromise = "pending"
               /\ ghost.refreshCalls > ghost.refreshSettled

\* C19's case: after a refresh that failed, a later attempt has started a
\* new refresh operation
Wit_C19 ==
    /\ ghost.refreshRejected = 1 /\ ghost.refreshSettled = 1
    /\ ghost.refreshCalls = 2 /\ refreshPromise = "pending"
    /\ \E c \in Calls : calls[c].pc = "awaitRefresh" /\ calls[c].role = "starter"

\* C20: at most one refresh operation is in flight, and at most one of the
\* calls awaiting the slot is the one that created the operation in it.
Thm_C20 ==
    /\ ghost.refreshCalls - ghost.refreshSettled \in {0, 1}
    /\ refreshPromise = "pending" <=> ghost.refreshCalls - ghost.refreshSettled = 1
    /\ Cardinality({c \in Calls : calls[c].pc = "awaitRefresh"
                                   /\ calls[c].role = "starter"}) <= 1

\* C20's case: every call met the refresh-triggering status while no refresh
\* had settled; one created the operation, the others await it
Wit_C20 ==
    /\ \A c \in Calls : calls[c].pc = "awaitRefresh"
    /\ Cardinality({c \in Calls : calls[c].role = "starter"}) = 1
    /\ ghost.refreshCalls = 1 /\ ghost.refreshSettled = 0

\* C11: no polling re-invocation reads or writes the cache; the stale
\* callback fires at most once per logical call, also when the call goes
\* through a refresh (the post-refresh retry looks nothing up); and the
\* Success of a post-refresh retry of a cached call is in the cache.
Thm_C11 ==
    /\ ~ghost.pollTouched
    /\ \A s \in Calls :
           calls[s].pollOf # 0 =>
               /\ calls[s].lookup = "none"
               /\ calls[s].onValueCalls = 0
               /\ ~init[s].cached
    /\ \A c \in Calls :
           calls[c].pollOf = 0 =>
               /\ calls[c].onValueCalls <= 1
               /\ calls[c].refreshDepth > 0 /\ calls[c].pc = "done"
                  /\ calls[c].result.kind = "ok" /\ init[c].cached
                  => cache[init[c].key].data = calls[c].result.data

\* a cached call surfaced its stale entry, refreshed, stored the retried
\* Success, and a polling re-invocation has delivered a newer value
Wit_C11 ==
    /\ calls[1].onValueCalls = 1 /\ calls[1].refreshDepth = 1
    /\ calls[1].pc = "done" /\ calls[1].result.kind = "ok"
    /\ cache["GET:/a"].data = calls[1].result.data
    /\ \E f \in BOOLEAN :
           /\ Len(calls[1].poller[f].delivered) > 0
           /\ calls[1].poller[f].delivered[1] # cache["GET:/a"].data

\* the values of a sequence, and whether it is strictly increasing (the
\* parsed values are numbered in the order of the transport responses)
C15_Range(q) == {q[n] : n \in 1..Len(q)}
C15_Increasing(q) == \A m, n \in 1..Len(q) : m < n => q[m] < q[n]

\* C15: a poller runs only for a call that returned Success with a
\* long-polling configuration, and never changes the returned result; the
\* values handed to the update callback are exactly the values of the
\* successful re-invocations that have returned, each once, in the order of
\* the re-invocations; a failed re-invocation hands over nothing and does
\* not end the loop (only the cancellation signal does).
Thm_C15 ==
    /\ \A c \in Calls : \A f \in BOOLEAN :
           LET q == calls[c].poller[f]
           IN  /\ q.st # "off" =>
                      /\ init[c].longPooling /\ calls[c].pollOf = 0
                      /\ calls[c].pc = "done" /\ calls[c].result.kind = "ok"
                      /\ calls[c].result.data = q.returned
               /\ C15_Increasing(q.delivered)
               /\ C15_Range(q.delivered) \subseteq ghost.pollOks
               /\ q.st = "stopped" => calls[c].pollAbort
               /\ q.failed > 0 /\ ~calls[c].pollAbort => q.st \in {"sleep", "poll"}
    /\ ghost.pollOkCount
         = Len(calls[1].poller[FALSE].delivered)
           + Len(calls[1].poller[TRUE].delivered)
           + Cardinality({s \in Calls : /\ calls[s].pollOf # 0
                                        /\ calls[s].pc = "done"
                                        /\ calls[s].result.kind = "ok"})

\* a poller delivered two values around a failed re-invocation and sleeps
Wit_C15 ==
    \E f \in BOOLEAN :
        /\ Len(calls[1].poller[f].delivered) = 2
        /\ calls[1].poller[f].failed = 1
        /\ calls[1].poller[f].st = "sleep"
        /\ ~calls[1].pollAbort

\* C16 as stated: once polling.abort has fired, no transport invocation of
\* a re-invocation starts and no value is handed to the update callback.
CE_C16 ==
    \A c \in Calls :
        /\ ~calls[c].pollFetchAfterAbort
        /\ ~calls[c].pollStartAfterAbort
        /\ \A f \in BOOLEAN : calls[c].poller[f].afterAbort = 0

C16_Stopped ==
    \A c \in Calls : \A f \in BOOLEAN : calls[c].poller[f].st \in {"off", "stopped"}

C16_Safe ==
    \A c \in Calls :
        /\ ~calls[c].pollStartAfterAbort
        /\ \A f \in BOOLEAN :
               /\ calls[c].poller[f].afterAbort <= 1
               /\ calls[c].poller[f].st = "stopped" => calls[c].pollAbort

\* C16: once polling.abort has fired, a poller starts no further
\* re-invocation (a cancellation during the sleep prevents the next one);
\* the re-invocation in flight at that moment runs to its end and its
\* value, at most that one, is still handed to the update callback; then
\* the loop ends.
Thm_C16 ==
    /\ []C16_Safe
    /\ (\E c \in Calls : calls[c].pollAbort) ~> C16_Stopped

\* the signal fired while a re-invocation was in flight: its transport
\* invocation started afterwards, its value was delivered, the loop ended
Wit_C16 ==
    /\ calls[1].pollAbort
    /\ \E f \in BOOLEAN :
           /\ calls[1].poller[f].st = "stopped"
           /\ calls[1].poller[f].afterAbort = 1
    /\ C16_Stopped

\* C17: a polling re-invocation that ends on the refresh-triggering status
\* has been through the refresh (its retry was answered 401 again, or the
\* refresh operation failed); it never gives up on a first 401, whichever
\* poller made it.
CE_C17 ==
    \A s \in Calls :
        /\ calls[s].pollOf # 0
        /\ calls[s].pc \in {"onError", "done"}
        /\ calls[s].result.kind # "ok"
        /\ calls[s].res = 401
        => calls[s].refreshDepth > 0 \/ calls[s].awaitedRejected

\* what C21 says of a classified 2xx response, the external signal left out
C21_Continue(c) ==
    /\ init[c].retries /\ init[c].retryOn # "none"
    /\ calls[c].okClass.p
    /\ calls[c].okClass.attempt < init[c].times

\* a retried 2xx response is followed by the sleep and by the next attempt;
\* a Success carries the data of the last response
C21_Flow ==
    \A c \in Calls :
        /\ calls[c].okClass.seen /\ calls[c].okClass.retried
           /\ calls[c].attempt = calls[c].okClass.attempt
           => calls[c].pc = "sleep"
        /\ calls[c].pc = "sleep" => calls[c].lastRetryAt = calls[c].attempt
        /\ calls[c].pc \notin {"idle", "sleep"} =>
               calls[c].attempt = calls[c].lastRetryAt + 1
        /\ calls[c].pc = "done" /\ calls[c].result.kind = "ok" =>
               /\ calls[c].okClass.seen /\ ~calls[c].okClass.retried
               /\ calls[c].okClass.attempt = calls[c].attempt
               /\ calls[c].result.data = calls[c].parsed
        /\ init[c].retryOn = "none" => ~calls[c].okClass.retried

\* C21 as stated: a 2xx response the predicate wants continued at an attempt
\* below the budget is retried, never returned.
CE_C21 ==
    /\ C21_Flow
    /\ \A c \in Calls :
           calls[c].okClass.seen =>
               (calls[c].okClass.retried <=> C21_Continue(c))

\* C21: the same, unless the external signal has fired when the response is
\* classified: then the response is returned as Success whatever the
\* predicate would say.
Thm_C21 ==
    /\ C21_Flow
    /\ \A c \in Calls :
           calls[c].okClass.seen =>
               (calls[c].okClass.retried <=>
                    C21_Continue(c) /\ ~calls[c].okClass.aborted)

\* a 2xx response was retried at attempt 1 and the 2xx response of attempt 2,
\* for which the predicate said stop, was returned
Wit_C21 ==
    /\ calls[1].pc = "done" /\ calls[1].result.kind = "ok"
    /\ calls[1].lastRetryAt = 1 /\ calls[1].attempt = 2
    /\ calls[1].firstStatus = 200
    /\ init[1].retryOn = "custom" /\ init[1].times = 3
    /\ ~calls[1].okClass.p

\* the predicate is invoked with increasing attempt numbers, each below the
\* budget: at most once per attempt, never at attempt >= times, never
\* without a custom predicate
C22_Invocations ==
    \A c \in Calls :
        LET q == calls[c].predAttempts
        IN  /\ \A n \in 1..Len(q) : q[n] >= 1 /\ q[n] < init[c].times
            /\ \A m, n \in 1..Len(q) : m < n => q[m] < q[n]
            /\ \A n \in 1..Len(q) : q[n] <= calls[c].attempt
            /\ init[c].retryOn = "none" => q = <<>>

\* C22 as stated: with a custom predicate and attempt < times, the retry
\* decision on every outcome is what the predicate returns.
CE_C22 ==
    /\ C22_Invocations
    /\ \A c \in Calls :
           /\ calls[c].decision.seen /\ init[c].retries /\ init[c].retryOn # "none"
           /\ calls[c].decision.attempt < init[c].times
           => (calls[c].decision.retried <=> calls[c].decision.p)

\* C22: the same for every outcome decided while the external signal has
\* not fired; once it has fired nothing is retried and the predicate is not
\* invoked.
Thm_C22 ==
    /\ C22_Invocations
    /\ \A c \in Calls :
           /\ calls[c].decision.seen /\ init[c].retries /\ init[c].retryOn # "none"
           /\ calls[c].decision.attempt < init[c].times
           => /\ ~calls[c].decision.aborted =>
                     /\ calls[c].decision.retried <=> calls[c].decision.p
                     /\ calls[c].predAttempts # <<>>
                     /\ calls[c].predAttempts[Len(calls[c].predAttempts)]
                            = calls[c].decision.attempt
              /\ calls[c].decision.aborted => ~calls[c].decision.retried

\* a 404 was retried because the predicate said so, and the transport error
\* of attempt 2, which the default predicate retries, ended the call
\* because the predicate said no
Wit_C22 ==
    /\ init[1].retryOn = "custom" /\ init[1].times = 3
    /\ calls[1].firstStatus = 404 /\ calls[1].lastRetryAt = 1
    /\ calls[1].predAttempts = <<1, 2>>
    /\ calls[1].decision.kind = "error" /\ calls[1].decision.error = "NetworkError"
    /\ ~calls[1].decision.p /\ ~calls[1].decision.retried
    /\ calls[1].pc = "done" /\ calls[1].result.kind = "fail"

\* the outcomes the default predicate retries
C23_Retryable(d) ==
    \/ d.kind = "error" /\ d.error \in {"NetworkError", "TimeoutError"}
    \/ d.kind = "http" /\ (d.status >= 500 \/ d.status = 429)

\* a non-2xx response that is not retried ends the call, on that attempt,
\* with the HTTP failure of its status; an attempt short-circuited at its
\* top is never retried
C23_Ends ==
    \A c \in Calls :
        /\ /\ calls[c].decision.kind = "http" /\ ~calls[c].decision.retried
           /\ calls[c].decision.attempt = calls[c].attempt
           => /\ calls[c].pc \in {"onError", "done"}
              /\ calls[c].err = httpError(calls[c].decision.status)
              /\ calls[c].pc = "done" =>
                     /\ calls[c].result.kind = "fail"
                     /\ calls[c].result.error = httpError(calls[c].decision.status)
        /\ calls[c].shortCircuit # "none" =>
               /\ calls[c].pc \in {"onError", "done"}
               /\ calls[c].lastRetryAt < calls[c].attempt

\* C23 as stated: with retries and no custom predicate, a failed attempt
\* below the budget is retried exactly when its outcome is a Network error,
\* a Timeout error, or a status >= 500 or 429.
CE_C23 ==
    /\ C23_Ends
    /\ \A c \in Calls :
           /\ calls[c].decision.seen /\ calls[c].decision.kind # "ok"
           /\ init[c].retries /\ init[c].retryOn = "none"
           /\ calls[c].decision.attempt < init[c].times
           => (calls[c].decision.retried <=> C23_Retryable(calls[c].decision))

\* C23: the same for every failure decided while the external signal has
\* not fired; once it has fired no failure is retried.
Thm_C23 ==
    /\ C23_Ends
    /\ \A c \in Calls :
           /\ calls[c].decision.seen /\ calls[c].decision.kind # "ok"
           /\ init[c].retries /\ init[c].retryOn = "none"
           /\ calls[c].decision.attempt < init[c].times
           => /\ ~calls[c].decision.aborted =>
                     (calls[c].decision.retried <=> C23_Retryable(calls[c].decision))
              /\ calls[c].decision.aborted => ~calls[c].decision.retried

\* a 429 was retried at attempt 1 and the 404 of attempt 2 ended the call
\* below its budget
Wit_C23 ==
    /\ init[1].retries /\ init[1].retryOn = "none" /\ init[1].times = 3
    /\ calls[1].firstStatus = 429 /\ calls[1].lastRetryAt = 1
    /\ calls[1].decision.kind = "http" /\ calls[1].decision.status = 404
    /\ calls[1].decision.attempt = 2
    /\ calls[1].pc = "done" /\ calls[1].result.error = httpError(404)

\* C24: every returned result is one of the two variants: ok with its data
\* (the parsed body of the last response, null included) and no error, or
\* not ok with an error and no data.
Thm_C24 ==
    \A c \in Calls :
        calls[c].pc = "done" =>
            /\ calls[c].result.kind \in {"ok", "fail"}
            /\ calls[c].result.kind = "ok" =>
                   /\ calls[c].result.data # 0
                   /\ calls[c].result.data = calls[c].parsed
                   /\ calls[c].result.error = NoErr
            /\ calls[c].result.kind = "fail" =>
                   /\ calls[c].result.data = 0
                   /\ calls[c].result.error # NoErr
                   /\ isNormalizedError(calls[c].result.error)

\* a Success with a null body, under a mapper that returns garbage
Wit_C24 ==
    /\ calls[1].pc = "done" /\ calls[1].result.kind = "ok"
    /\ calls[1].result.data = Null
    /\ calls[1].lastRetryAt = 1
    /\ base.errorMap = "invalid"

\* the four tags of the error taxonomy
C25_Kinds == {"NetworkError", "TimeoutError", "HttpError", "ValidationError"}

\* C25: the error of every failed result carries one of the four tags,
\* whatever base.errorMap returns.
CE_C25 ==
    \A c \in Calls :
        calls[c].pc = "done" /\ calls[c].result.kind = "fail" =>
            calls[c].result.error.name \in C25_Kinds

\* C26: when base.errorMap throws or returns a value that is not a
\* normalized error, the call still returns a failed result and its error
\* is the error that was handed to the mapper; when it returns a normalized
\* error, the result carries the returned error.
Thm_C26 ==
    \A c \in Calls :
        /\ calls[c].pc \in {"onError", "done"} /\ calls[c].unmapped # NoErr =>
               calls[c].err =
                   IF base.errorMap \in {"rename", "custom"}
                   THEN errorMapOut(base.errorMap, calls[c].unmapped)
                   ELSE calls[c].unmapped
        /\ calls[c].pc = "done" /\ calls[c].unmapped # NoErr =>
               /\ calls[c].result.kind = "fail"
               /\ calls[c].result.error = calls[c].err
        /\ calls[c].pc = "done" /\ calls[c].result.kind = "fail" =>
               calls[c].unmapped # NoErr

\* a timeout of the attempt under a mapper returning garbage: the
\* TimeoutError comes back as it was
Wit_C26 ==
    /\ base.errorMap = "invalid"
    /\ calls[1].pc = "done" /\ calls[1].result.kind = "fail"
    /\ calls[1].unmapped = timeoutError(1)
    /\ calls[1].result.error = timeoutError(1)

\* a transport invocation is in flight exactly between its start and the
\* classification of its outcome, so never two at once, and the next
\* attempt starts only after the classification
C27_OneInFlight ==
    \A c \in Calls :
        /\ calls[c].transports - calls[c].outcomes \in {0, 1}
        /\ calls[c].transports - calls[c].outcomes = 1
               <=> calls[c].pc \in {"inflight", "response"}
        /\ calls[c].pc \in {"sleep", "auth", "onRequest"} =>
               calls[c].transports = calls[c].outcomes

\* C27 as stated: one transport invocation at a time, and the predicate
\* sees the attempt numbers 1, 2, 3, ... of the call.
CE_C27 ==
    /\ C27_OneInFlight
    /\ \A c \in Calls :
           \A n \in 1..Len(calls[c].predAttempts) : calls[c].predAttempts[n] = n

\* C27: one transport invocation at a time; the predicate sees 1, 2, 3, ...
\* in each pass of the attempt loop, and the post-refresh retry, which runs
\* the loop again, starts again at 1.
Thm_C27 ==
    /\ C27_OneInFlight
    /\ \A c \in Calls :
           /\ calls[c].predBefore <= Len(calls[c].predAttempts)
           /\ \A n \in 1..Len(calls[c].predAttempts) :
                  calls[c].predAttempts[n] =
                      IF n <= calls[c].predBefore THEN n
                      ELSE n - calls[c].predBefore

\* the predicate retried attempt 1, attempt 2 was answered 401, and in the
\* post-refresh retry the predicate saw attempts 1 and 2 again
Wit_C27 ==
    /\ init[1].retryOn = "custom" /\ init[1].times = 3
    /\ calls[1].refreshDepth = 1
    /\ calls[1].predBefore = 1
    /\ calls[1].predAttempts = <<1, 1, 2>>
    /\ calls[1].transports = 4 /\ calls[1].outcomes = 4

\* C28: with an authentication provider, every transport invocation is
\* preceded by its own invocation of the provider, retries and the
\* post-refresh retry included, and carries the credential the provider
\* returned then: after a refresh that fulfilled, the retry carries a
\* credential written by the refresh, not the one of the triggering attempt.
Thm_C28 ==
    \A c \in Calls :
        base.authentication =>
            /\ calls[c].authCalls =
                   calls[c].transports + (IF calls[c].pc = "onRequest" THEN 1 ELSE 0)
            /\ calls[c].pc = "inflight" => calls[c].sentToken = calls[c].authToken
            /\ calls[c].refreshDepth > 0 /\ calls[c].transports > calls[c].transportsAtRefresh
               => /\ calls[c].sentToken > calls[c].triggerToken
                  /\ calls[c].sentToken >= 1

\* the post-refresh retry, on its second attempt, carries the refreshed
\* credential
Wit_C28 ==
    /\ base.authentication
    /\ calls[1].refreshDepth = 1 /\ calls[1].pc = "inflight"
    /\ calls[1].attempt = 2 /\ calls[1].lastRetryAt = 1
    /\ calls[1].triggerToken = 0 /\ calls[1].sentToken = 1
    /\ calls[1].authCalls = calls[1].transports

\* the configured cap (maxDelayMs ?? 2000)
C29_Max == IF init[1].maxDelayMs = Undefined THEN 2000 ELSE init[1].maxDelayMs

\* the un-jittered component never decreases from one attempt to the next
\* and never exceeds the cap
C29_Monotone ==
    ghost.backoff.attempt >= 1 =>
        /\ ghost.backoff.raw <= C29_Max
        /\ ghost.backoff.attempt >= 2 => ghost.backoff.prevRaw <= ghost.backoff.raw

\* C29: the delay computed for every attempt, jitter included, is at most
\* the configured max delay, and the un-jittered component is non-decreasing
\* in the attempt number up to the cap.
CE_C29 ==
    /\ C29_Monotone
    /\ ghost.backoff.attempt >= 1 => ghost.backoff.delay <= C29_Max

\* the check is made once per invocation of the engine, before its first
\* attempt; an unavailable network ends the call with the mapped
\* NetworkError, handed to the error observer, and no transport invocation
\* follows the check
C30_Check ==
    \A c \in Calls :
        base.checkNetworkAvailable =>
            /\ calls[c].pc \notin {"idle", "netcheck"} =>
                   calls[c].netChecks = calls[c].refreshDepth + 1
            /\ calls[c].pc = "netcheck" =>
                   calls[c].netChecks = calls[c].refreshDepth
            /\ calls[c].transports > calls[c].transportsAtCheck =>
                   calls[c].netAvailable
            /\ calls[c].netChecks > 0 /\ ~calls[c].netAvailable =>
                   /\ calls[c].pc \in {"onError", "done"}
                   /\ calls[c].site = "net"
                   /\ calls[c].unmapped = networkError
                   /\ calls[c].err = mapError(networkError)
                   /\ calls[c].transports = calls[c].transportsAtCheck
                   /\ calls[c].pc = "done" =>
                          /\ calls[c].result.kind = "fail"
                          /\ calls[c].result.error = mapError(networkError)
                          /\ calls[c].result.response = 0
                          /\ calls[c].onErrorCalls = 1
                          /\ calls[c].observedErr = mapError(networkError)

\* C30 as stated: a call ended by the check has made no transport
\* invocation at all.
CE_C30 ==
    /\ C30_Check
    /\ \A c \in Calls :
           calls[c].netChecks > 0 /\ ~calls[c].netAvailable =>
               calls[c].transports = 0

\* C30: a call ended by the check makes no transport invocation after the
\* check: none at all when the check is the one of the call itself, and
\* only those made before the refresh when it is the check of the
\* post-refresh retry.
Thm_C30 ==
    /\ C30_Check
    /\ \A c \in Calls :
           calls[c].netChecks > 0 /\ ~calls[c].netAvailable =>
               /\ calls[c].refreshDepth = 0 => calls[c].transports = 0
               /\ calls[c].refreshDepth > 0 =>
                      calls[c].transports = calls[c].transportsAtRefresh

\* the first check of a call reported the network unavailable: the call
\* returned the mapped NetworkError without a transport invocation
Wit_C30 ==
    /\ base.errorMap = "rename"
    /\ calls[1].pc = "done" /\ calls[1].netChecks = 1 /\ ~calls[1].netAvailable
    /\ calls[1].transports = 0
    /\ calls[1].result.error = [networkError EXCEPT !.name = "ValidationError"]
    /\ calls[1].observedErr = calls[1].result.error


\* the status the trigger predicate of the engine matches: the one
\* shouldRefreshToken accepts, 401 without it
C31_Matches(c) ==
    /\ base.refreshToken
    /\ ~calls[c].isRefreshRetry
    /\ calls[c].res = IF base.shouldRefreshToken = "is403" THEN 403 ELSE 401

\* the step that classifies the non-2xx response call c holds
C31_Classified(c) ==
    /\ calls[c].pc = "response"
    /\ calls'[c].pc # "response"
    /\ ~ResOk(calls[c].res)

\* C31: a non-2xx response that matches the refresh trigger sends the call to
\* the refresh at whatever attempt number, with no retry decision taken on it
\* (predicate not invoked, budget not checked, no sleep); a non-2xx response
\* that does not match starts no refresh and gets the decision of the retry
\* policy.
Thm_C31 ==
    [][\A c \in Calls :
          C31_Classified(c) =>
              IF C31_Matches(c)
              THEN /\ calls'[c].pc = "awaitRefresh"
                   /\ calls'[c].attempt = calls[c].attempt
                   /\ calls'[c].decision = calls[c].decision
                   /\ calls'[c].predAttempts = calls[c].predAttempts
                   /\ calls'[c].lastRetryAt = calls[c].lastRetryAt
              ELSE /\ calls'[c].pc \in {"sleep", "onError"}
                   /\ ghost'.refreshCalls = ghost.refreshCalls
                   /\ refreshPromise' = refreshPromise
                   /\ calls'[c].decision.seen
                   /\ calls'[c].decision.kind = "http"
                   /\ calls'[c].decision.status = calls[c].res
                   /\ calls'[c].decision.attempt = calls[c].attempt
                   /\ calls'[c].decision.retried <=>
                          /\ init[c].retries
                          /\ shouldRetry(init[c], calls[c].attempt,
                                         [response |-> calls[c].res, error |-> NoErr],
                                         calls'[c].decision.p)
                   /\ calls'[c].pc = "sleep" <=> calls'[c].decision.retried]_vars

\* a 403 matched by shouldRefreshToken at the last attempt of the budget is
\* awaiting the refresh, the one decision so far being that of attempt 1
Wit_C31 ==
    /\ base.shouldRefreshToken = "is403"
    /\ calls[1].pc = "awaitRefresh"
    /\ calls[1].trigger = 403
    /\ init[1].retries /\ calls[1].attempt = init[1].times /\ calls[1].attempt = 2
    /\ calls[1].decision.attempt = 1
    /\ calls[1].decision.status = 500


\* the step in which the validator of call c is run on a 2xx body
C32_Validated(c) ==
    /\ calls[c].pc = "response"
    /\ calls'[c].pc # "response"
    /\ ResOk(calls[c].res)
    /\ init[c].validate

\* what a call whose body the validator rejected returns
C32_Result ==
    \A c \in Calls :
        /\ calls[c].validated.seen /\ ~calls[c].validated.success
        /\ calls[c].pc = "done"
        => /\ calls[c].result.kind = "fail"
           /\ calls[c].result.error = validationError(calls[c].validated.error)
           /\ calls[c].result.response = calls[c].res
           /\ ResOk(calls[c].res)
           /\ calls[c].transports = calls[c].validated.transports

\* C32: a 2xx body the validator rejects gives a Validation failure with the
\* validator's cause and the raw response, no retry and no store in the
\* cache; a body it accepts gives Success with the validator's output.
Thm_C32 ==
    /\ []C32_Result
    /\ [][\A c \in Calls :
             C32_Validated(c) =>
                 /\ calls'[c].validated.seen
                 /\ IF calls'[c].validated.success
                    THEN /\ calls'[c].pc = "done"
                         /\ calls'[c].result.kind = "ok"
                         /\ calls'[c].result.data = calls'[c].validated.data
                         /\ calls'[c].result.response = calls[c].res
                    ELSE /\ calls'[c].pc = "onError"
                         /\ calls'[c].err = validationError(calls'[c].validated.error)
                         /\ calls'[c].site = "try"
                         /\ calls'[c].transports = calls[c].transports
                         /\ cache' = cache]_vars

\* a cached call with retryOn accepting everything has returned the
\* Validation failure after one transport invocation, the entry another
\* call stored being untouched
Wit_C32 ==
    /\ init[1].cached /\ init[1].retries /\ init[1].retryOn = "always"
    /\ calls[1].pc = "done"
    /\ calls[1].result.error.name = "ValidationError"
    /\ calls[1].result.response = 200
    /\ calls[1].transports = 1
    /\ cache[init[1].key] # NoEntry
    /\ cache[init[1].key].data = calls[2].result.data


\* the characters of a text are all digits
C33_Integer(text) ==
    /\ text # <<>>
    /\ \A n \in 1..Len(text) : text[n] \in DOMAIN DigitOf

\* the number a text of digits writes
RECURSIVE C33_Number(_)
C33_Number(text) ==
    IF text = <<>> THEN 0
    ELSE 10 * C33_Number(SubSeq(text, 1, Len(text) - 1)) + DigitOf[text[Len(text)]]

\* the headers whose text is an HTTP date
C33_Date(h) == ~h.date.nan /\ h.text[1] \notin DOMAIN DigitOf

\* C33: a call asleep before a retry sleeps the Retry-After of the retried
\* response when that response is a 429 and the header is integer seconds
\* (times 1000) or an HTTP date (minus now, at least 0); for any other
\* status, and without the header or with one that is neither, it sleeps the
\* computed backoff delay.
Thm_C33 ==
    \A c \in Calls :
        calls[c].pc = "sleep" =>
            LET k == calls[c]
                h == k.retryAfter
                backoff == backoffDelay(k.attempt, init[c], k.delayRnd)
            IN  IF k.res = 429 /\ C33_Integer(h.text)
                THEN k.delay = 1000 * C33_Number(h.text)
                ELSE IF k.res = 429 /\ h.text # <<>> /\ C33_Date(h)
                THEN k.delay = Max(0, h.date.val - k.delayAt)
                ELSE IF k.res # 429 \/ h.text = <<>>
                        \/ (parseInt(h.text).nan /\ h.date.nan)
                THEN k.delay = backoff
                ELSE k.delay = 1000 * parseInt(h.text).val

\* a 429 with Retry-After: 10 is retried after 10000 ms where the backoff
\* is at most 360 ms
Wit_C33 ==
    /\ calls[1].pc = "sleep"
    /\ calls[1].res = 429
    /\ calls[1].retryAfter.text = <<"1", "0">>
    /\ calls[1].delay = 10000
    /\ init[1].baseDelayMs = Undefined
    /\ backoffDelay(calls[1].attempt, init[1], calls[1].delayRnd) <= 360


\* the pollers call c has started
C34_Pollers(c) == {f \in BOOLEAN : calls[c].poller[f].st # "off"}

\* C34: a long-polling call that returned Success has started exactly one
\* poller, also when the Success came through a refresh retry; the
\* re-invocations start none, and at most one of them is running per call.
CE_C34 ==
    \A c \in Calls :
        /\ (init[c].longPooling /\ calls[c].pc = "done" /\ calls[c].result.kind = "ok")
               => Cardinality(C34_Pollers(c)) = 1
        /\ calls[c].pollOf # 0 => C34_Pollers(c) = {}
        /\ Cardinality({f \in BOOLEAN : calls[c].poller[f].st = "poll"}) <= 1


\* C35: a call that ended in failure had its error mapper invoked once, on
\* the final error, and its error observer once, with the error returned; a
\* call that is still running (its failures so far retried away, or answered
\* by a refresh) or that ended in Success had neither invoked.
Thm_C35 ==
    \A c \in Calls :
        LET k == calls[c]
            mapper == IF base.errorMap # "none" THEN 1 ELSE 0
            observer == IF base.onError THEN 1 ELSE 0
        IN  /\ (k.pc = "done" /\ k.result.kind = "fail") =>
                   /\ k.mapCalls = mapper
                   /\ k.onErrorCalls = observer
                   /\ k.result.error = mapError(k.unmapped)
                   /\ base.onError => k.observedErr = k.result.error
            /\ k.pc = "onError" => k.mapCalls = mapper /\ k.onErrorCalls = 0
            /\ (k.pc = "done" /\ k.result.kind = "ok") =>
                   k.mapCalls = 0 /\ k.onErrorCalls = 0
            /\ k.pc \notin {"onError", "done"} =>
                   k.mapCalls = 0 /\ k.onErrorCalls = 0

\* a 500 was retried away, a 401 answered by a refresh that fulfilled, and
\* the call failed on the 500 of the post-refresh retry: one invocation each
Wit_C35 ==
    /\ base.errorMap = "custom" /\ base.onError
    /\ calls[1].pc = "done"
    /\ calls[1].result.error.name = "CustomError"
    /\ calls[1].result.error.status = 500
    /\ calls[1].refreshDepth = 1
    /\ calls[1].transports >= 3
    /\ calls[1].mapCalls = 1 /\ calls[1].onErrorCalls = 1


\* C36: no attempt of a call starts once totalTimeoutMs has elapsed since
\* the caller invoked the engine, the attempts of the post-refresh retry
\* included: the refresh retry does not restart the deadline.
CE_C36 ==
    \A c \in Calls :
        /\ ~calls[c].startAfterT
        /\ calls[c].refreshDepth > 0 /\ init[c].totalTimeoutMs # 0
               => calls[c].startedAt = calls[c].calledAt


\* the attempts the retry policy of call c allows in one pass of the loop
C37_K(c) == IF init[c].retries THEN init[c].times ELSE 1

\* C37: with budget times = k >= 1 and a refresh operation, a call invokes
\* the transport at most k times before the refresh and at most k times in
\* the post-refresh retry, whose attempts are numbered from 1 again: at most
\* 2k in all, and at most 2 without retry configuration.
Thm_C37 ==
    \A c \in Calls :
        (calls[c].pollOf = 0 /\ C37_K(c) >= 1) =>
            LET k == calls[c]
                after == k.transports - k.transportsAtRefresh
            IN  /\ k.refreshDepth <= 1
                /\ k.transports <= 2 * C37_K(c)
                /\ ~init[c].retries => k.transports <= 2
                /\ k.refreshDepth = 0 => k.transports <= C37_K(c)
                /\ k.refreshDepth = 1 =>
                       /\ k.transportsAtRefresh <= C37_K(c)
                       /\ after <= C37_K(c)
                       /\ k.attempt <= C37_K(c)
                       /\ k.pc = "inflight" => k.attempt = after

\* with budget 2 the call used two attempts before the refresh and two in
\* the retry after it
Wit_C37 ==
    /\ init[1].retries /\ init[1].times = 2
    /\ calls[1].pc = "done"
    /\ calls[1].refreshDepth = 1
    /\ calls[1].transportsAtRefresh = 2
    /\ calls[1].transports = 4
    /\ calls[1].attempt = 2


\* the attempt counter stays within the budget and a call refreshes once
C38_Bounded ==
    \A c \in Calls :
        /\ calls[c].attempt <= (IF init[c].retries THEN init[c].times ELSE 1)
        /\ calls[c].refreshDepth <= 1

\* the attempt counter of a call only goes up by one, or back to 1 when the
\* refresh retry starts
C38_Counts ==
    \A c \in Calls :
        calls'[c].attempt # calls[c].attempt =>
            \/ calls'[c].attempt = calls[c].attempt + 1
            \/ /\ calls'[c].attempt = 1
               /\ calls'[c].refreshDepth = calls[c].refreshDepth + 1

\* C38: when every transport call, refresh, hook and sleep settles, a call
\* with a finite retry budget returns: its attempt counter rises up to times,
\* it refreshes at most once, and a call awaiting the pending refresh is
\* resumed.
Thm_C38 ==
    /\ []C38_Bounded
    /\ [][C38_Counts]_vars
    /\ \A c \in {1, 2} : (calls[c].pc # "idle") ~> (calls[c].pc = "done")
    /\ \A c \in {1, 2} : (calls[c].pc = "awaitRefresh") ~> (calls[c].pc # "awaitRefresh")

\* a call with budget 2 that joined the pending refresh of another call has
\* returned after its second attempt in the refresh retry
Wit_C38 ==
    /\ init[1].retries /\ init[1].times = 2
    /\ calls[1].pc = "done"
    /\ calls[1].firstRole = "joiner"
    /\ calls[1].refreshDepth = 1
    /\ calls[1].attempt = 2
    /\ calls[2].pc = "done"


\* the entry of a key, when there is one, holds the data of the cached call
\* on that key that returned Success last; a call without cache
\* configuration has looked nothing up
C39_Last ==
    /\ \A key \in Keys :
           cache[key] # NoEntry =>
               /\ ghost.lastOk[key] # 0
               /\ cache[key].data = ghost.lastOk[key]
    /\ \A c \in Calls :
           ~init[c].cached => calls[c].lookup = "none" /\ calls[c].onValueCalls = 0

\* a step that changes the cache is the lookup or the store of one cached
\* call, whole: the lookup starts the call, the store ends it
C39_Atomic ==
    cache' # cache =>
        \E c \in Calls :
            /\ init[c].cached
            /\ \A d \in Calls \ {c} : calls'[d] = calls[d]
            /\ \/ /\ calls[c].pc = "idle" /\ calls'[c].lookup = "expired"
                  /\ cache'[init[c].key] = NoEntry
               \/ /\ calls[c].pc = "response" /\ calls'[c].pc = "done"
                  /\ calls'[c].result.kind = "ok"
                  /\ cache'[init[c].key].data = calls'[c].result.data
                  /\ cache'[init[c].key].timestamp = now

\* C39: with concurrent cached calls on one key every lookup and every
\* store is a single step of one call, the entry holds the data of the
\* cached call that returned Success last, and calls without cache
\* configuration neither read nor change an entry.
Thm_C39 == []C39_Last /\ [][C39_Atomic]_vars

\* call 2 started after call 1 and returned first; call 1 returned last and
\* the entry holds its data
Wit_C39 ==
    /\ init[2].cached
    /\ calls[1].pc = "done" /\ calls[2].pc = "done"
    /\ calls[1].result.kind = "ok" /\ calls[2].result.kind = "ok"
    /\ calls[1].result.data = 1 /\ calls[2].result.data = 2
    /\ ghost.lastOk[init[1].key] = 1
    /\ cache[init[1].key].data = 1

====
